---------------------------- MODULE Spec2Model ----------------------------
(***************************************************************************)
(* tarfs: a tar archive served as a read-only FUSE filesystem.             *)
(*                                                                         *)
(* The repository holds two generations of the runtime:                    *)
(*   - tree.rs + filesystem.rs (wired up by main.rs): Tree::new builds a   *)
(*     tree of shared nodes, Filesystem serves the upcalls from it and     *)
(*     re-reads the archive into a per-handle buffer;                      *)
(*   - node.rs + fs.rs + cache.rs: ArchiveFs serves the upcalls from an    *)
(*     inode map and materialises file bodies through EntryCache.          *)
(* Both are modelled.  Shared nodes (Rc<Node>) are kept in an arena: a     *)
(* sequence of node records, a reference being an index into it; index 1   *)
(* is the root.                                                            *)
(***************************************************************************)
EXTENDS Integers, Sequences, FiniteSets, TLC

VARIABLES
    archive,      \* the archive file: the sequence of its records
    phase,        \* "start", "mounted" (struct Filesystem), "mounted_archivefs"
                  \* (struct ArchiveFs), "failed" (main returned an error),
                  \* "destroyed" (unmounted), "panicked" (main panicked)
    filesystem,   \* the mounted struct Filesystem or struct ArchiveFs
    reply,        \* the reply to the last upcall
    scans,        \* the inos whose body a read has materialised from a scan
    opened,       \* the kernel's open files: handle -> the ino it was opened on
    cli_args,     \* the command line: struct Args
    cache,        \* the scratch directory of the archive: [exists, files]
    racers,       \* processes inside EntryCache::open: [path, procs]
    archive_file  \* the first bytes of the archive file

vars == <<archive, phase, filesystem, reply, scans, opened, cli_args, cache, racers,
          archive_file>>

-----------------------------------------------------------------------------
(* Bounds of the model *)

MaxEntries == 3
MaxFh == 2

(* Option::None for an optional number, and a header field that fails to
   decode *)
None == 0 - 1
Bad == 0 - 2

Min(S) == CHOOSE x \in S : \A y \in S : x <= y

-----------------------------------------------------------------------------
(* The archive: records as the tar iterator yields them *)

Names == {"a", "b", "c"}

E(type, path, link, size) ==
    [type |-> type, path |-> path, link |-> link, size |-> size,
     mode |-> IF type = "Directory" THEN 493 ELSE 420,
     mtime |-> 7, uid |-> 1000, gid |-> 100, uname |-> "", gname |-> ""]

(* The records archives are made of.  A path is the sequence of its
   components; a hard link's target is a path, a symlink's target is its
   raw bytes.  "Other" is any entry type the builder does not know (fifo,
   device); the empty path is a path without a final name ("./"). *)
EntryUniverse ==
    { E("Directory", <<"a">>, <<>>, 0),
      E("Regular", <<"a">>, <<>>, 2),
      E("Regular", <<"b">>, <<>>, 1),
      E("Link", <<"b">>, <<"a">>, 0),
      E("Link", <<"b">>, <<"c">>, 0),
      E("Symlink", <<"c">>, <<46, 46, 47>>, 0),
      E("Link", <<"c">>, <<"b">>, 0),
      E("Other", <<"c">>, <<>>, 0),
      E("Regular", <<"a", "b">>, <<>>, 0),
      E("Link", <<"a", "b">>, <<"b">>, 0),
      E("Regular", <<>>, <<>>, 0) }

(* Archives hold no two records of one path (the behaviour for duplicate
   paths is left open by the design) *)
DistinctPaths(a) == \A i, j \in DOMAIN a : i # j => a[i].path # a[j].path

RECURSIVE SeqsUpTo(_, _)
SeqsUpTo(S, n) ==
    IF n = 0 THEN {<<>>}
    ELSE LET shorter == SeqsUpTo(S, n - 1)
         IN shorter \cup {Append(s, x) : s \in {t \in shorter : Len(t) = n - 1}, x \in S}

Archives == {a \in SeqsUpTo(EntryUniverse, MaxEntries) : DistinctPaths(a)}

(* The archives the open/read/release upcalls are served from: the records
   below in any number and order *)
ServeUniverse ==
    { E("Directory", <<"a">>, <<>>, 0),
      E("Regular", <<"b">>, <<>>, 2),
      E("Link", <<"a", "b">>, <<"b">>, 0) }

ServeArchives ==
    {a \in SeqsUpTo(ServeUniverse, Cardinality(ServeUniverse)) : DistinctPaths(a)}

(* The body of the record of ordinal i (zero-based): size bytes, different
   for different records *)
Body(a, i) == [k \in 1..a[i + 1].size |-> 10 * (i + 1) + k]

-----------------------------------------------------------------------------
(* tree.rs: enum Node *)

NodeOf(kind, id, name) ==
    [kind |-> kind, id |-> id, name |-> name, children |-> <<>>, size |-> 0,
     target |-> <<>>, link |-> 0, link_count |-> 0, archive_index |-> 0,
     mtime |-> 0, uid |-> 0, gid |-> 0, perms |-> 0]

RECURSIVE NodeId(_, _)
NodeId(nodes, at) ==
    IF nodes[at].kind = "Link" THEN NodeId(nodes, nodes[at].link) ELSE nodes[at].id

NodeName(nodes, at) == nodes[at].name

LinkTarget(nodes, at) ==
    IF nodes[at].kind = "Symlink" THEN [some |-> TRUE, target |-> nodes[at].target]
    ELSE [some |-> FALSE, target |-> <<>>]

(* FileAttr; atime, ctime and crtime always equal mtime, blocks, rdev,
   blksize and flags are always 0 *)
FileAttr(ino, size, mtime, kind, perm, nlink, uid, gid) ==
    [ino |-> ino, size |-> size, mtime |-> mtime, kind |-> kind, perm |-> perm,
     nlink |-> nlink, uid |-> uid, gid |-> gid]

RECURSIVE Attr(_, _)
Attr(nodes, at) ==
    LET n == nodes[at]
    IN CASE n.kind = "Directory" ->
              FileAttr(n.id, 0, n.mtime, "Directory", n.perms, 1, n.uid, n.gid)
         [] n.kind = "File" ->
              FileAttr(n.id, n.size, n.mtime, "RegularFile", n.perms,
                       n.link_count, n.uid, n.gid)
         [] n.kind = "Symlink" ->
              FileAttr(n.id, Len(n.target) + 1, n.mtime, "Symlink", 511,
                       n.link_count, n.uid, n.gid)
         [] OTHER -> Attr(nodes, n.link)

(* Node::children: None (has = FALSE) unless the node is a Directory *)
Children(nodes, at) ==
    IF nodes[at].kind = "Directory"
    THEN [has |-> TRUE, list |-> nodes[at].children]
    ELSE [has |-> FALSE, list |-> <<>>]

(* The first child of directory `at` with the given name, 0 if none *)
FirstChild(nodes, at, name) ==
    LET cs == nodes[at].children
        hits == {k \in 1..Len(cs) : NodeName(nodes, cs[k]) = name}
    IN IF hits = {} THEN 0 ELSE cs[Min(hits)]

(* Path::parent of a path with a final component *)
Parent(path) == SubSeq(path, 1, Len(path) - 1)

(* push_child_node: the tree with the child placed, or orphan = TRUE and
   the tree as it was *)
RECURSIVE PushInner(_, _, _, _)
PushInner(nodes, at, components, child) ==
    IF nodes[at].kind = "Directory"
    THEN IF components = <<>>
         THEN [nodes |-> Append([nodes EXCEPT ![at].children = Append(@, Len(nodes) + 1)],
                                child),
               orphan |-> FALSE]
         ELSE LET next == FirstChild(nodes, at, Head(components))
              IN IF next # 0
                 THEN PushInner(nodes, next, Tail(components), child)
                 ELSE [nodes |-> nodes, orphan |-> TRUE]
    ELSE [nodes |-> nodes, orphan |-> TRUE]

PushChildNode(nodes, path, child) ==
    IF path = <<>>
    THEN [nodes |-> Append([nodes EXCEPT ![1].children = Append(@, Len(nodes) + 1)], child),
          orphan |-> FALSE]
    ELSE PushInner(nodes, 1, Parent(path), child)

(* Tree::walk: the node reached, 0 for None.  A component that names no
   child leaves the current node where it is. *)
RECURSIVE WalkFrom(_, _, _)
WalkFrom(nodes, current, components) ==
    IF components = <<>> THEN current
    ELSE IF ~Children(nodes, current).has THEN 0
    ELSE LET next == FirstChild(nodes, current, Head(components))
         IN WalkFrom(nodes, IF next # 0 THEN next ELSE current, Tail(components))

Walk(nodes, path) == IF path = <<>> THEN 1 ELSE WalkFrom(nodes, 1, path)

(* Node::inc_link_count: ok = FALSE is the Err for a node that is neither a
   File nor a Symlink *)
IncLinkCount(nodes, at) ==
    IF nodes[at].kind \in {"File", "Symlink"}
    THEN [nodes |-> [nodes EXCEPT ![at].link_count = @ + 1], ok |-> TRUE]
    ELSE [nodes |-> nodes, ok |-> FALSE]

-----------------------------------------------------------------------------
(* tree.rs: Tree::new *)

RECURSIVE BitAnd(_, _)
BitAnd(x, y) ==
    IF x = 0 \/ y = 0 THEN 0
    ELSE 2 * BitAnd(x \div 2, y \div 2) + (IF x % 2 = 1 /\ y % 2 = 1 THEN 1 ELSE 0)

RECURSIVE BitOr(_, _)
BitOr(x, y) ==
    IF x = 0 THEN y
    ELSE IF y = 0 THEN x
    ELSE 2 * BitOr(x \div 2, y \div 2) + (IF x % 2 = 1 \/ y % 2 = 1 THEN 1 ELSE 0)

(* The command line: --numeric-owner, --uid, --gid, --mode *)
Args(numeric_owner, uid, gid, mode) ==
    [numeric_owner |-> numeric_owner, uid |-> uid, gid |-> gid, mode |-> mode]

DefaultArgs == Args(FALSE, None, None, None)

(* The host's user and group database: the id of a name, None if the name
   is unknown *)
UserByName(name) == IF name = "root" THEN 0 ELSE None

GroupByName(name) == IF name = "root" THEN 0 ELSE None

(* resolve_uid that takes a readable raw uid before the user name *)
ResolveUidRawFirst(args, name, uid) ==
    IF args.uid # None THEN args.uid
    ELSE IF args.numeric_owner THEN uid
    ELSE IF uid # Bad THEN uid
    ELSE IF name # "" /\ UserByName(name) # None THEN UserByName(name)
    ELSE uid

(* resolve_uid: the uid, Bad for Err.  name = "" is a header without a user
   name, uid = Bad a uid field that does not decode.  The ids of the model
   are far below 2^32, where the cast to u32 changes nothing. *)
ResolveUid(args, name, uid) ==
    IF args.uid # None THEN args.uid
    ELSE IF args.numeric_owner THEN uid
    ELSE IF name # "" /\ UserByName(name) # None THEN UserByName(name)
    ELSE uid

ResolveGid(args, name, gid) ==
    IF args.gid # None THEN args.gid
    ELSE IF args.numeric_owner THEN gid
    ELSE IF name # "" /\ GroupByName(name) # None THEN GroupByName(name)
    ELSE gid

(* calculate_perms without the search bits for directories *)
CalculatePermsNoSearchBits(args, type, mode) ==
    IF args.mode # None THEN BitAnd(args.mode, 511)
    ELSE IF mode = Bad THEN Bad ELSE BitAnd(mode, 511)

(* calculate_perms: the perms, Bad for Err *)
CalculatePerms(args, type, mode) ==
    IF args.mode # None
    THEN LET m == BitAnd(args.mode, 511)
         IN IF type = "Directory" THEN BitOr(m, BitAnd(m, 292) \div 4) ELSE m
    ELSE IF mode = Bad THEN Bad ELSE BitAnd(mode, 511)

(* EntryNode that numbers a file by the nodes made before it *)
EntryNodeCountsNodes(args, e, i, next_id) ==
    LET name == e.path[Len(e.path)]
        uid == ResolveUid(args, e.uname, e.uid)
        gid == ResolveGid(args, e.gname, e.gid)
        perms == CalculatePerms(args, e.type, e.mode)
        base == [NodeOf("None", next_id, name) EXCEPT
                   !.mtime = e.mtime, !.uid = uid, !.gid = gid]
        owner_ok == e.mtime # Bad /\ uid # Bad /\ gid # Bad
    IN CASE e.type = "Regular" ->
              [ok |-> owner_ok /\ perms # Bad,
               node |-> [base EXCEPT !.kind = "File", !.size = e.size, !.perms = perms,
                                     !.archive_index = next_id - 2, !.link_count = 1]]
         [] e.type = "Symlink" ->
              [ok |-> e.link # <<>> /\ owner_ok,
               node |-> [base EXCEPT !.kind = "Symlink", !.target = e.link,
                                     !.link_count = 1]]
         [] OTHER ->
              [ok |-> owner_ok /\ perms # Bad,
               node |-> [base EXCEPT !.kind = "Directory", !.perms = perms]]

(* The node the entry loop constructs for the record of ordinal i, with
   ok = FALSE when one of the header reads returns Err *)
EntryNode(args, e, i, next_id) ==
    LET name == e.path[Len(e.path)]
        uid == ResolveUid(args, e.uname, e.uid)
        gid == ResolveGid(args, e.gname, e.gid)
        perms == CalculatePerms(args, e.type, e.mode)
        base == [NodeOf("None", next_id, name) EXCEPT
                   !.mtime = e.mtime, !.uid = uid, !.gid = gid]
        owner_ok == e.mtime # Bad /\ uid # Bad /\ gid # Bad
    IN CASE e.type = "Regular" ->
              [ok |-> owner_ok /\ perms # Bad,
               node |-> [base EXCEPT !.kind = "File", !.size = e.size, !.perms = perms,
                                     !.archive_index = i, !.link_count = 1]]
         [] e.type = "Symlink" ->
              [ok |-> e.link # <<>> /\ owner_ok,
               node |-> [base EXCEPT !.kind = "Symlink", !.target = e.link,
                                     !.link_count = 1]]
         [] OTHER ->
              [ok |-> owner_ok /\ perms # Bad,
               node |-> [base EXCEPT !.kind = "Directory", !.perms = perms]]

(* EntryStep with a counter that a queued hard link advances too *)
EntryStepLinkTakesId(args, st, e, i) ==
    IF st.err \/ e.path = <<>> THEN st
    ELSE IF e.type = "Link"
    THEN IF e.link = <<>> THEN [st EXCEPT !.err = TRUE]
         ELSE [st EXCEPT !.next_id = @ + 1,
                         !.links = Append(@, [path |-> e.path,
                                                name |-> e.path[Len(e.path)],
                                                target |-> e.link])]
    ELSE IF e.type \notin {"Regular", "Symlink", "Directory"} THEN st
    ELSE LET made == EntryNode(args, e, i, st.next_id)
             pushed == PushChildNode(st.nodes, e.path, made.node)
         IN IF ~made.ok THEN [st EXCEPT !.err = TRUE]
            ELSE IF pushed.orphan
            THEN [st EXCEPT !.next_id = @ + 1, !.err = TRUE]
            ELSE [st EXCEPT !.next_id = @ + 1, !.nodes = pushed.nodes]

(* One turn of the entry loop.  st = [nodes, links, next_id, err]; err is
   the Err Tree::new returns, after which nothing more is done. *)
EntryStep(args, st, e, i) ==
    IF st.err \/ e.path = <<>> THEN st
    ELSE IF e.type = "Link"
    THEN IF e.link = <<>> THEN [st EXCEPT !.err = TRUE]
         ELSE [st EXCEPT !.links = Append(@, [path |-> e.path,
                                                name |-> e.path[Len(e.path)],
                                                target |-> e.link])]
    ELSE IF e.type \notin {"Regular", "Symlink", "Directory"} THEN st
    ELSE LET made == EntryNode(args, e, i, st.next_id)
             pushed == PushChildNode(st.nodes, e.path, made.node)
         IN IF ~made.ok THEN [st EXCEPT !.err = TRUE]
            ELSE IF pushed.orphan
            THEN [st EXCEPT !.next_id = @ + 1, !.err = TRUE]
            ELSE [st EXCEPT !.next_id = @ + 1, !.nodes = pushed.nodes]

RECURSIVE EntryLoop(_, _, _, _)
EntryLoop(args, st, a, i) ==
    IF i >= Len(a) THEN st
    ELSE EntryLoop(args, EntryStep(args, st, a[i + 1], i), a, i + 1)

(* One turn of the loop over the queued hard links *)
LinkStep(nodes, link) ==
    LET target_node == Walk(nodes, link.target)
        child == [NodeOf("Link", 0, link.name) EXCEPT !.link = target_node]
        pushed == PushChildNode(nodes, link.path, child)
    IN IF target_node = 0 THEN nodes
       ELSE IF pushed.orphan THEN nodes
       ELSE IncLinkCount(pushed.nodes, target_node).nodes

(* The loop over the queued hard links taken from the last to the first *)
RECURSIVE LinkLoopFrom(_, _, _)
LinkLoopFrom(nodes, links, k) ==
    IF k < 1 THEN nodes
    ELSE LinkLoopFrom(LinkStep(nodes, links[k]), links, k - 1)

LinkLoopBackwards(nodes, links, k) == LinkLoopFrom(nodes, links, Len(links))

RECURSIVE LinkLoop(_, _, _)
LinkLoop(nodes, links, k) ==
    IF k > Len(links) THEN nodes
    ELSE LinkLoop(LinkStep(nodes, links[k]), links, k + 1)

(* The entry loop with every hard link resolved where its record stands *)
RECURSIVE StreamLoop(_, _, _, _)
StreamLoop(args, st, a, i) ==
    IF i >= Len(a) THEN st
    ELSE LET e == a[i + 1]
             step == EntryStep(args, st, e, i)
             link == [path |-> e.path, name |-> e.path[Len(e.path)], target |-> e.link]
         IN StreamLoop(args,
                       IF e.type = "Link" /\ e.path # <<>> /\ ~step.err
                       THEN [st EXCEPT !.nodes = LinkStep(@, link)]
                       ELSE step,
                       a, i + 1)

(* Tree::new that binds a hard link when it reads the record *)
TreeNewResolvesInStream(a, root_mtime, args) ==
    LET root == [NodeOf("Directory", 1, "") EXCEPT !.mtime = root_mtime, !.perms = 365]
        st0 == [nodes |-> <<root>>, links |-> <<>>, next_id |-> root.id + 1, err |-> FALSE]
        st == StreamLoop(args, st0, a, 0)
    IN IF st.err THEN [ok |-> FALSE, nodes |-> <<>>]
       ELSE [ok |-> TRUE, nodes |-> st.nodes]

(* Tree::new: [ok, nodes]; the root is nodes[1] *)
TreeNew(a, root_mtime, args) ==
    LET root == [NodeOf("Directory", 1, "") EXCEPT !.mtime = root_mtime, !.perms = 365]
        st0 == [nodes |-> <<root>>, links |-> <<>>, next_id |-> root.id + 1, err |-> FALSE]
        st == EntryLoop(args, st0, a, 0)
    IN IF st.err THEN [ok |-> FALSE, nodes |-> <<>>]
       ELSE [ok |-> TRUE, nodes |-> LinkLoop(st.nodes, st.links, 1)]

(* Node::find and Tree::find: the first node in depth-first order whose
   id() is the one asked for, 0 for None *)
RECURSIVE Find(_, _, _)
RECURSIVE FindAmong(_, _, _, _)
Find(nodes, at, other_id) ==
    IF NodeId(nodes, at) = other_id THEN at
    ELSE IF nodes[at].kind = "Directory"
    THEN FindAmong(nodes, nodes[at].children, 1, other_id)
    ELSE 0

FindAmong(nodes, children, k, other_id) ==
    IF k > Len(children) THEN 0
    ELSE LET found == Find(nodes, children[k], other_id)
         IN IF found # 0 THEN found
            ELSE FindAmong(nodes, children, k + 1, other_id)

TreeFind(nodes, id) == Find(nodes, 1, id)

(* Node::lookup and Tree::lookup: the first child named `name` of the
   directory with id `parent`, 0 for None *)
RECURSIVE Lookup(_, _, _, _)
RECURSIVE LookupAmong(_, _, _, _, _)
Lookup(nodes, at, parent, name) ==
    IF nodes[at].kind # "Directory" THEN 0
    ELSE IF nodes[at].id = parent THEN FirstChild(nodes, at, name)
    ELSE LookupAmong(nodes, nodes[at].children, 1, parent, name)

LookupAmong(nodes, children, k, parent, name) ==
    IF k > Len(children) THEN 0
    ELSE LET found == Lookup(nodes, children[k], parent, name)
         IN IF found # 0 THEN found
            ELSE LookupAmong(nodes, children, k + 1, parent, name)

TreeLookup(nodes, parent, name) == Lookup(nodes, 1, parent, name)

(* Node::read.  The entry reader is a forward stream over the body of the
   record of ordinal archive_index in a fresh iteration of the archive:
   [status, buf], status "ok", "err" (an Err) or "panic". *)
NodeRead(a, nodes, at, offset, length) ==
    LET index == nodes[at].archive_index
        entry_size == a[index + 1].size
        body == Body(a, index)
        off == IF offset < entry_size THEN offset ELSE entry_size
        size == IF length = None THEN entry_size - off
                ELSE IF length < entry_size - off THEN length ELSE entry_size - off
        \* the stream position after the reads that stand in for a seek
        pos == IF off > 0 THEN (off \div size) * size + (off % size) ELSE 0
    IN IF nodes[at].kind # "File" THEN [status |-> "err", buf |-> <<>>]
       ELSE IF index >= Len(a) THEN [status |-> "panic", buf |-> <<>>]
       ELSE IF off > 0 /\ size = 0 THEN [status |-> "panic", buf |-> <<>>]
       ELSE IF pos + size > entry_size THEN [status |-> "err", buf |-> <<>>]
       ELSE [status |-> "ok", buf |-> SubSeq(body, pos + 1, pos + size)]

-----------------------------------------------------------------------------
(* filesystem.rs: struct Filesystem and its upcalls *)

(* The arguments of the upcalls: every id the builder can have assigned and
   one more, every handle open can have returned and one more *)
Inos == 1..(MaxEntries + 2)
Fhs == 0..MaxFh
Offsets == {0, 1, 2, 3}
ReadSizes == {0, 1, 3}
BufferRooms == {1, MaxEntries}

NoReply == [op |-> "none", kind |-> "none"]

(* magic.rs: Compression::detect on the archive file: [panic, value].
   read_exact of six bytes is an Err for a shorter file, which main
   unwraps. *)
DetectLen == 6

StartsWith(content, magic) ==
    Len(content) >= Len(magic) /\ SubSeq(content, 1, Len(magic)) = magic

Detect(content) ==
    LET buf == SubSeq(content, 1, DetectLen)
    IN IF Len(content) < DetectLen THEN [panic |-> TRUE, value |-> "Unknown"]
       ELSE [panic |-> FALSE,
             value |-> CASE buf[1] = 31 /\ buf[2] = 139 -> "Gzip"
                         [] buf[1] = 66 /\ buf[2] = 90 /\ buf[3] = 104 -> "Bzip2"
                         [] buf[1] = 40 /\ buf[2] = 181 /\ buf[3] = 47 /\ buf[4] = 253 ->
                              "Zstd"
                         [] buf = <<253, 55, 122, 88, 90, 0>> -> "Xz"
                         [] OTHER -> "Unknown"]

(* The start of an uncompressed archive file: the name field of its first
   header *)
PlainFile == <<97, 0, 0, 0, 0, 0, 0, 0>>

(* No process is inside EntryCache::open *)
NoRacers == [path |-> <<>>, procs |-> <<>>]

(* The scratch directory before anything is cached: it does not exist *)
NoCache == [exists |-> FALSE, files |-> <<>>]

Call(op, ino, fh, offset, size, name) ==
    [op |-> op, ino |-> ino, fh |-> fh, offset |-> offset, size |-> size, name |-> name]

(* A reply: kind "error" carries an errno, kind "panic" is a handler that
   panicked instead of replying; scanned tells whether the handler opened
   and read the archive *)
Reply(call, kind, value, scanned) ==
    [op |-> call.op, call |-> call, kind |-> kind, value |-> value, scanned |-> scanned]

(* open_archive is the closure that decodes the archive file with the
   decoder of the compression detected *)
FilesystemNew(tree, open_archive) ==
    [tree |-> tree, open_archive |-> open_archive, next_fh |-> 0, handles |-> <<>>]

NoBuf == [some |-> FALSE, buf |-> <<>>]

(* HashMap insert and remove on a map kept as a function *)
MapInsert(map, key, value) ==
    [k \in DOMAIN map \cup {key} |-> IF k = key THEN value ELSE map[k]]

MapRemove(map, key) == [k \in DOMAIN map \ {key} |-> map[k]]

ArchiveMtime == 9

(* main: the compression is detected, then Tree::new on the records the
   decoder yields, Filesystem::new and the mount *)
Main ==
    /\ phase = "start"
    /\ LET compression == Detect(archive_file)
           built == TreeNew(archive, ArchiveMtime, cli_args)
       IN IF compression.panic
          THEN /\ phase' = "panicked"
               /\ UNCHANGED filesystem
          ELSE IF built.ok
          THEN /\ phase' = "mounted"
               /\ filesystem' = FilesystemNew(built.nodes, compression.value)
          ELSE /\ phase' = "failed"
               /\ UNCHANGED filesystem
    /\ UNCHANGED <<archive, reply, scans, opened, cli_args, cache, racers,
                 archive_file>>

(* getattr that stamps the node it was asked about *)
FsGetattrStampsNode(ino) ==
    /\ phase = "mounted"
    /\ LET node == TreeFind(filesystem.tree, ino)
           call == Call("getattr", ino, 0, 0, 0, "")
       IN IF node # 0
          THEN /\ reply' = Reply(call, "attr", Attr(filesystem.tree, node), FALSE)
               /\ filesystem' = [filesystem EXCEPT !.tree[node].mtime = @ + 1]
          ELSE /\ reply' = Reply(call, "error", "ENOENT", FALSE)
               /\ UNCHANGED filesystem
    /\ UNCHANGED <<archive, phase, scans, opened, cli_args, cache, racers,
                   archive_file>>

FsGetattr(ino) ==
    /\ phase = "mounted"
    /\ LET node == TreeFind(filesystem.tree, ino)
           call == Call("getattr", ino, 0, 0, 0, "")
       IN reply' = IF node # 0
                   THEN Reply(call, "attr", Attr(filesystem.tree, node), FALSE)
                   ELSE Reply(call, "error", "ENOENT", FALSE)
    /\ UNCHANGED <<archive, phase, filesystem, scans, opened, cli_args, cache, racers,
                 archive_file>>

FsLookup(parent, name) ==
    /\ phase = "mounted"
    /\ LET node == TreeLookup(filesystem.tree, parent, name)
           call == Call("lookup", parent, 0, 0, 0, name)
       IN reply' = IF node # 0
                   THEN Reply(call, "entry", Attr(filesystem.tree, node), FALSE)
                   ELSE Reply(call, "error", "ENOENT", FALSE)
    /\ UNCHANGED <<archive, phase, filesystem, scans, opened, cli_args, cache, racers,
                 archive_file>>

(* The entries readdir adds: child k carries next offset k; the reply
   buffer has room for `room` entries *)
DirEntries(nodes, children, offset, room) ==
    LET last == IF offset + room < Len(children) THEN offset + room ELSE Len(children)
    IN [j \in 1..(IF last > offset THEN last - offset ELSE 0) |->
           [ino |-> NodeId(nodes, children[offset + j]),
            offset |-> offset + j,
            kind |-> Attr(nodes, children[offset + j]).kind,
            name |-> NodeName(nodes, children[offset + j])]]

FsReaddir(ino, offset, room) ==
    /\ phase = "mounted"
    /\ LET node == TreeFind(filesystem.tree, ino)
           call == Call("readdir", ino, 0, offset, room, "")
       IN reply' = IF node = 0 THEN Reply(call, "error", "ENOENT", FALSE)
                   ELSE IF ~Children(filesystem.tree, node).has
                   THEN Reply(call, "error", "ENOENT", FALSE)
                   ELSE Reply(call, "dir",
                              DirEntries(filesystem.tree,
                                         Children(filesystem.tree, node).list,
                                         offset, room), FALSE)
    /\ UNCHANGED <<archive, phase, filesystem, scans, opened, cli_args, cache, racers,
                 archive_file>>

(* open that hands out the smallest id that is not in the handle map *)
FsOpenReusesHandle(ino) ==
    /\ phase = "mounted"
    /\ LET call == Call("open", ino, 0, 0, 0, "")
           fh == Min((0..MaxFh) \ DOMAIN filesystem.handles)
       IN IF TreeFind(filesystem.tree, ino) = 0
          THEN /\ reply' = Reply(call, "error", "ENOENT", FALSE)
               /\ UNCHANGED <<filesystem, opened>>
          ELSE /\ fh < MaxFh
               /\ filesystem' = [filesystem EXCEPT
                                   !.next_fh = IF fh + 1 > @ THEN fh + 1 ELSE @,
                                   !.handles = MapInsert(@, fh, NoBuf)]
               /\ opened' = MapInsert(opened, fh, ino)
               /\ reply' = Reply(call, "opened", fh, FALSE)
    /\ UNCHANGED <<archive, phase, scans, cli_args, cache, racers,
                 archive_file>>

FsOpen(ino) ==
    /\ phase = "mounted"
    /\ LET call == Call("open", ino, 0, 0, 0, "")
           fh == filesystem.next_fh
       IN IF TreeFind(filesystem.tree, ino) = 0
          THEN /\ reply' = Reply(call, "error", "ENOENT", FALSE)
               /\ UNCHANGED <<filesystem, opened>>
          ELSE /\ fh < MaxFh
               /\ filesystem' = [filesystem EXCEPT
                                   !.next_fh = fh + 1,
                                   !.handles = MapInsert(@, fh, NoBuf)]
               /\ opened' = MapInsert(opened, fh, ino)
               /\ reply' = Reply(call, "opened", fh, FALSE)
    /\ UNCHANGED <<archive, phase, scans, cli_args, cache, racers,
                 archive_file>>

(* release that gives the id released last back to the counter *)
FsReleaseRewindsCounter(fh) ==
    /\ phase = "mounted"
    /\ filesystem' = [filesystem EXCEPT
                        !.handles = MapRemove(@, fh),
                        !.next_fh = IF fh + 1 = @ THEN fh ELSE @]
    /\ opened' = MapRemove(opened, fh)
    /\ reply' = Reply(Call("release", 0, fh, 0, 0, ""), "empty", 0, FALSE)
    /\ UNCHANGED <<archive, phase, scans, cli_args, cache, racers,
                   archive_file>>

FsRelease(fh) ==
    /\ phase = "mounted"
    /\ filesystem' = [filesystem EXCEPT !.handles = MapRemove(@, fh)]
    /\ opened' = MapRemove(opened, fh)
    /\ reply' = Reply(Call("release", 0, fh, 0, 0, ""), "empty", 0, FALSE)
    /\ UNCHANGED <<archive, phase, scans, cli_args, cache, racers,
                 archive_file>>

(* The slice &buf[start..end] of read: Rust panics when start > end *)
Slice(buf, start, end) ==
    IF start > end THEN [panic |-> TRUE, data |-> <<>>]
    ELSE [panic |-> FALSE, data |-> SubSeq(buf, start + 1, end)]

(* The kernel sends the read of an open file with the ino the file was
   opened on *)
FsRead(ino, fh, offset, size) ==
    /\ phase = "mounted"
    /\ fh \in DOMAIN opened => ino = opened[fh]
    /\ LET call == Call("read", ino, fh, offset, size, "")
           tree == filesystem.tree
           node == TreeFind(tree, ino)
           fresh == NodeRead(archive, tree, node, 0, None)
           Serve(buf, scanned) ==
               LET end == IF offset + size < Len(buf) THEN offset + size ELSE Len(buf)
                   data == Slice(buf, offset, end)
               IN IF data.panic THEN Reply(call, "panic", 0, scanned)
                  ELSE Reply(call, "data", data.data, scanned)
       IN IF fh \notin DOMAIN filesystem.handles
          THEN /\ reply' = Reply(call, "error", "ENOENT", FALSE)
               /\ UNCHANGED <<filesystem, scans>>
          ELSE IF filesystem.handles[fh].some
          THEN /\ reply' = Serve(filesystem.handles[fh].buf, FALSE)
               /\ UNCHANGED <<filesystem, scans>>
          ELSE IF node = 0
          THEN /\ reply' = Reply(call, "error", "ENOENT", FALSE)
               /\ UNCHANGED <<filesystem, scans>>
          ELSE IF fresh.status = "panic"
          THEN /\ reply' = Reply(call, "panic", 0, TRUE)
               /\ UNCHANGED <<filesystem, scans>>
          ELSE IF fresh.status = "err"
          THEN /\ reply' = Reply(call, "error", "ENOENT", TRUE)
               /\ UNCHANGED <<filesystem, scans>>
          ELSE /\ filesystem' = [filesystem EXCEPT
                                   !.handles[fh] = [some |-> TRUE, buf |-> fresh.buf]]
               /\ scans' = scans \cup {ino}
               /\ reply' = Serve(fresh.buf, TRUE)
    /\ UNCHANGED <<archive, phase, opened, cli_args, cache, racers,
                 archive_file>>

FsReadlink(ino) ==
    /\ phase = "mounted"
    /\ LET node == TreeFind(filesystem.tree, ino)
           call == Call("readlink", ino, 0, 0, 0, "")
       IN reply' = IF node = 0 THEN Reply(call, "error", "ENOENT", FALSE)
                   ELSE IF LinkTarget(filesystem.tree, node).some
                   THEN Reply(call, "data", LinkTarget(filesystem.tree, node).target, FALSE)
                   ELSE Reply(call, "error", "ENOENT", FALSE)
    /\ UNCHANGED <<archive, phase, filesystem, scans, opened, cli_args, cache, racers,
                 archive_file>>

Init ==
    /\ archive \in Archives
    /\ phase = "start"
    /\ filesystem = FilesystemNew(<<>>, "Unknown")
    /\ reply = NoReply
    /\ archive_file = PlainFile
    /\ scans = {}
    /\ opened = <<>>
    /\ cli_args = DefaultArgs
    /\ cache = NoCache
    /\ racers = NoRacers

Next ==
    \/ Main
    \/ \E ino \in Inos : FsGetattr(ino)
    \/ \E parent \in Inos, name \in Names : FsLookup(parent, name)
    \/ \E ino \in Inos, offset \in 0..MaxEntries, room \in BufferRooms :
          FsReaddir(ino, offset, room)
    \/ \E ino \in Inos : FsReadlink(ino)

(* The build and the upcalls that only read the tree *)
Spec == Init /\ [][Next]_vars

InitServe ==
    /\ archive \in ServeArchives
    /\ phase = "start"
    /\ filesystem = FilesystemNew(<<>>, "Unknown")
    /\ reply = NoReply
    /\ archive_file = PlainFile
    /\ scans = {}
    /\ opened = <<>>
    /\ cli_args = DefaultArgs
    /\ cache = NoCache
    /\ racers = NoRacers

NextServe ==
    \/ Main
    \/ \E ino \in Inos : FsOpen(ino)
    \/ \E fh \in Fhs : FsRelease(fh)
    \/ \E ino \in Inos, fh \in Fhs, offset \in Offsets, size \in ReadSizes :
          FsRead(ino, fh, offset, size)

(* The build and the upcalls on file handles *)
SpecServe == InitServe /\ [][NextServe]_vars

-----------------------------------------------------------------------------
(* Tree::walk called on its own on the tree main has built, with any path *)

WalkPaths == {<<>>, <<"a">>, <<"b">>, <<"c">>, <<"a", "b">>, <<"a", "c">>, <<"b", "a">>}

(* The reply is the place of the node in the tree, 0 for None *)
TreeWalkCall(path) ==
    /\ phase = "mounted"
    /\ reply' = Reply([path |-> path] @@ Call("walk", 0, 0, 0, 0, ""), "node",
                      Walk(filesystem.tree, path), FALSE)
    /\ UNCHANGED <<archive, phase, filesystem, scans, opened, cli_args, cache, racers,
                   archive_file>>

NextWalk ==
    \/ Main
    \/ \E path \in WalkPaths : TreeWalkCall(path)

SpecWalk == Init /\ [][NextWalk]_vars

-----------------------------------------------------------------------------
(* The detection of the compression: main on archive files of any start,
   and archive.rs open_archive on any file type *)

Magics ==
    {<<31, 139>>, <<66, 90, 104>>, <<40, 181, 47, 253>>, <<253, 55, 122, 88, 90, 0>>}

(* The starts of archive files: every part of a magic number, followed by
   bytes 0 or bytes 1, with a length of up to one byte more than detect
   reads *)
FileUniverse ==
    {SubSeq(SubSeq(magic, 1, IF k < Len(magic) THEN k ELSE Len(magic))
               \o [i \in 1..(DetectLen + 1) |-> fill], 1, n) :
        magic \in Magics, k \in 0..DetectLen, fill \in {0, 1}, n \in 0..(DetectLen + 1)}

(* What infer::get_from_path says of the archive file: no type (None), or
   a MIME type *)
MimeTypes ==
    {"None", "application/x-tar", "application/gzip", "application/x-xz",
     "application/x-bzip2", "application/zstd", "application/zip"}

(* archive.rs open_archive: the decoder the archive is read with, or an Err *)
OpenArchive(mime_type) ==
    CASE mime_type = "None" -> [ok |-> FALSE, decoder |-> "File type of archive is unknown"]
      [] mime_type = "application/x-tar" -> [ok |-> TRUE, decoder |-> "Unknown"]
      [] mime_type = "application/gzip" -> [ok |-> TRUE, decoder |-> "Gzip"]
      [] mime_type = "application/x-xz" -> [ok |-> TRUE, decoder |-> "Xz"]
      [] mime_type = "application/x-bzip2" -> [ok |-> TRUE, decoder |-> "Bzip2"]
      [] mime_type = "application/zstd" -> [ok |-> TRUE, decoder |-> "Zstd"]
      [] OTHER -> [ok |-> FALSE, decoder |-> "Unsupported archive or compression type"]

OpenArchiveCall(mime_type) ==
    /\ phase = "start"
    /\ LET call == [mime_type |-> mime_type] @@ Call("open_archive", 0, 0, 0, 0, "")
           got == OpenArchive(mime_type)
       IN reply' = Reply(call, IF got.ok THEN "archive" ELSE "err", got.decoder, FALSE)
    /\ UNCHANGED <<archive, phase, filesystem, scans, opened, cli_args, cache, racers,
                   archive_file>>

(* The decoder yields no record *)
InitDetect ==
    /\ archive = <<>>
    /\ phase = "start"
    /\ filesystem = FilesystemNew(<<>>, "Unknown")
    /\ reply = NoReply
    /\ archive_file \in FileUniverse
    /\ scans = {}
    /\ opened = <<>>
    /\ cli_args = DefaultArgs
    /\ cache = NoCache
    /\ racers = NoRacers

NextDetect ==
    \/ Main
    \/ \E mime_type \in MimeTypes : OpenArchiveCall(mime_type)

SpecDetect == InitDetect /\ [][NextDetect]_vars

-----------------------------------------------------------------------------
(* Node::read called on its own, with any offset and length *)

FileSizes == {0, 1, 2, 3}

ReadUniverse == {E("Regular", <<n>>, <<>>, s) : n \in {"a", "b"}, s \in FileSizes}

ReadArchives == {a \in SeqsUpTo(ReadUniverse, 2) : DistinctPaths(a)}

Lengths == {None} \cup ReadSizes

NodeReadCall(ino, offset, length) ==
    /\ phase = "mounted"
    /\ TreeFind(filesystem.tree, ino) # 0
    /\ LET got == NodeRead(archive, filesystem.tree, TreeFind(filesystem.tree, ino),
                           offset, length)
       IN reply' = Reply(Call("node_read", ino, 0, offset, length, ""),
                         got.status, got.buf, TRUE)
    /\ UNCHANGED <<archive, phase, filesystem, scans, opened, cli_args, cache, racers,
                 archive_file>>

InitNodeRead ==
    /\ archive \in ReadArchives
    /\ phase = "start"
    /\ filesystem = FilesystemNew(<<>>, "Unknown")
    /\ reply = NoReply
    /\ archive_file = PlainFile
    /\ scans = {}
    /\ opened = <<>>
    /\ cli_args = DefaultArgs
    /\ cache = NoCache
    /\ racers = NoRacers

NextNodeRead ==
    \/ Main
    \/ \E ino \in Inos, offset \in Offsets, length \in Lengths :
          NodeReadCall(ino, offset, length)

SpecNodeRead == InitNodeRead /\ [][NextNodeRead]_vars

-----------------------------------------------------------------------------
(* node.rs: enum Node.  Nodes own their children (Vec<Rc<Node>>) and never
   change once built, so a node is a record holding its children. *)

FsNode(kind, index, name, path) ==
    [kind |-> kind, index |-> index, name |-> name, path |-> path, size |-> 0,
     mode |-> 0, mtime |-> 0, uid |-> 0, gid |-> 0, target |-> <<>>,
     children |-> <<>>]

(* Node::try_from_entry: status "some" (Ok(Some)), "none" (Ok(None)), "err"
   or "panic" *)
NodeTryFromEntry(e, index) ==
    LET base == [FsNode("None", index, IF e.path = <<>> THEN "" ELSE e.path[Len(e.path)],
                        e.path)
                   EXCEPT !.mode = e.mode, !.mtime = e.mtime, !.uid = e.uid, !.gid = e.gid]
        some(node) == [status |-> "some", node |-> node]
    IN IF e.path = <<>> \/ e.mode = Bad \/ e.uid = Bad \/ e.gid = Bad \/ e.mtime = Bad
       THEN [status |-> "err", node |-> base]
       ELSE CASE e.type = "Directory" -> some([base EXCEPT !.kind = "Directory"])
              [] e.type = "Regular" ->
                   some([base EXCEPT !.kind = "File", !.size = e.size])
              [] e.type \in {"Symlink", "Link"} ->
                   IF e.link = <<>> THEN [status |-> "panic", node |-> base]
                   ELSE some([base EXCEPT !.kind = e.type, !.target = e.link,
                                          !.mode = 0,
                                          !.mtime = IF e.type = "Link" THEN 0 ELSE e.mtime,
                                          !.uid = IF e.type = "Link" THEN 0 ELSE e.uid,
                                          !.gid = IF e.type = "Link" THEN 0 ELSE e.gid])
              [] OTHER -> [status |-> "none", node |-> base]

(* The FileAttr of Node::attr, which panics for a Link *)
NodeAttr(n) ==
    CASE n.kind = "File" ->
           [panic |-> FALSE,
            attr |-> FileAttr(n.index, n.size, n.mtime, "RegularFile", n.mode % 65536, 1,
                              n.uid, n.gid)]
      [] n.kind = "Directory" ->
           [panic |-> FALSE,
            attr |-> FileAttr(n.index, 0, n.mtime, "Directory", n.mode % 65536, 1,
                              n.uid, n.gid)]
      [] n.kind = "Symlink" ->
           [panic |-> FALSE,
            attr |-> FileAttr(n.index, Len(n.target), n.mtime, "Symlink", 511, 1,
                              n.uid, n.gid)]
      [] OTHER -> [panic |-> TRUE, attr |-> FileAttr(0, 0, 0, "None", 0, 0, 0, 0)]

-----------------------------------------------------------------------------
(* The builder that hands ArchiveFs::new its nodes, after the design's
   description of the tree builder: ids count up from above the root id in
   archive order, a hard link gets none (index 0), an entry without a final
   name or of unknown type is skipped, an entry whose parent directory is
   missing is dropped. *)

RECURSIVE Place(_, _, _)
Place(nodes, components, child) ==
    IF components = <<>> THEN [nodes |-> Append(nodes, child), orphan |-> FALSE]
    ELSE LET hits == {k \in 1..Len(nodes) : nodes[k].name = Head(components)}
         IN IF hits = {} THEN [nodes |-> nodes, orphan |-> TRUE]
            ELSE IF nodes[Min(hits)].kind # "Directory"
            THEN [nodes |-> nodes, orphan |-> TRUE]
            ELSE LET sub == Place(nodes[Min(hits)].children, Tail(components), child)
                 IN [nodes |-> [nodes EXCEPT ![Min(hits)].children = sub.nodes],
                     orphan |-> sub.orphan]

(* st = [root, next_index, failed] *)
BuildStep(st, e) ==
    LET made == NodeTryFromEntry(e, IF e.type = "Link" THEN 0 ELSE st.next_index)
        placed == Place(st.root, Parent(e.path), made.node)
    IN IF st.failed \/ e.path = <<>> \/ made.status = "none" THEN st
       ELSE IF made.status # "some" THEN [st EXCEPT !.failed = TRUE]
       ELSE [st EXCEPT !.root = placed.nodes,
                       !.next_index = IF e.type = "Link" THEN @ ELSE @ + 1]

RECURSIVE BuildLoop(_, _, _)
BuildLoop(st, a, i) ==
    IF i >= Len(a) THEN st ELSE BuildLoop(BuildStep(st, a[i + 1]), a, i + 1)

FuseRootId == 1

BuildRoot(a) ==
    BuildLoop([root |-> <<>>, next_index |-> FuseRootId + 1, failed |-> FALSE], a, 0)

-----------------------------------------------------------------------------
(* fs.rs: struct ArchiveFs *)

RECURSIVE build_path_map(_, _)
build_path_map(map, nodes) ==
    IF nodes = <<>> THEN map
    ELSE LET node == Head(nodes)
             inserted == MapInsert(map, node.path, node)
         IN build_path_map(IF node.kind = "Directory"
                           THEN build_path_map(inserted, node.children)
                           ELSE inserted,
                           Tail(nodes))

RECURSIVE convert_links(_, _)
convert_links(nodes, path_map) ==
    IF nodes = <<>> THEN <<>>
    ELSE LET node == Head(nodes)
             rest == convert_links(Tail(nodes), path_map)
         IN CASE node.kind = "Link" ->
                   IF node.target \in DOMAIN path_map
                   THEN <<path_map[node.target]>> \o rest
                   ELSE rest
              [] node.kind = "Directory" ->
                   <<[node EXCEPT !.children = convert_links(@, path_map)]>> \o rest
              [] OTHER -> <<node>> \o rest

RECURSIVE build_inode_map(_, _)
build_inode_map(map, nodes) ==
    IF nodes = <<>> THEN map
    ELSE LET node == Head(nodes)
         IN build_inode_map(
                CASE node.kind \in {"File", "Symlink"} -> MapInsert(map, node.index, node)
                  [] node.kind = "Directory" ->
                       build_inode_map(MapInsert(map, node.index, node), node.children)
                  [] OTHER -> map,
                Tail(nodes))

(* The owner of the archive file *)
ArchiveOwner == [uid |-> 1000, gid |-> 100]

ArchiveFsNew(root_nodes) ==
    LET root == convert_links(root_nodes, build_path_map(<<>>, root_nodes))
        dummy(index, path, name, children) ==
            [FsNode("Directory", index, name, path) EXCEPT
               !.mode = 365, !.mtime = ArchiveMtime, !.uid = ArchiveOwner.uid,
               !.gid = ArchiveOwner.gid, !.children = children]
        dummy_root_node_children ==
            <<dummy(FuseRootId, <<".">>, ".", <<>>), dummy(0, <<"..">>, "..", <<>>)>> \o root
        dummy_root_node == dummy(FuseRootId, <<>>, "root", dummy_root_node_children)
    IN [inodes |-> build_inode_map(MapInsert(<<>>, dummy_root_node.index, dummy_root_node),
                                   root),
        fhs |-> <<>>,
        next_fh |-> 1]

(* ArchiveFs::search: [some, node] *)
Search(fs, inode) ==
    IF inode \in DOMAIN fs.inodes THEN [some |-> TRUE, node |-> fs.inodes[inode]]
    ELSE [some |-> FALSE, node |-> FsNode("None", 0, "", <<>>)]

(* The wiring of the builder to ArchiveFs::new and the mount *)
MainArchiveFs ==
    /\ phase = "start"
    /\ LET built == BuildRoot(archive)
       IN IF built.failed
          THEN /\ phase' = "failed"
               /\ UNCHANGED filesystem
          ELSE /\ phase' = "mounted_archivefs"
               /\ filesystem' = ArchiveFsNew(built.root)
    /\ UNCHANGED <<archive, reply, scans, opened, cli_args, cache, racers,
                 archive_file>>

ArchiveFsLookup(parent, name) ==
    /\ phase = "mounted_archivefs"
    /\ LET call == Call("lookup", parent, 0, 0, 0, name)
           found == Search(filesystem, parent)
           node == found.node
           hits == {k \in 1..Len(node.children) : node.children[k].name = name}
           child == node.children[Min(hits)]
       IN reply' = IF ~found.some THEN Reply(call, "error", "ENOENT", FALSE)
                   ELSE IF node.kind # "Directory"
                   THEN Reply(call, "error", "ENOTDIR", FALSE)
                   ELSE IF hits = {} THEN Reply(call, "error", "ENOENT", FALSE)
                   ELSE IF NodeAttr(child).panic THEN Reply(call, "panic", 0, FALSE)
                   ELSE Reply(call, "entry", NodeAttr(child).attr, FALSE)
    /\ UNCHANGED <<archive, phase, filesystem, scans, opened, cli_args, cache, racers,
                 archive_file>>

ArchiveFsGetattr(ino) ==
    /\ phase = "mounted_archivefs"
    /\ LET call == Call("getattr", ino, 0, 0, 0, "")
           found == Search(filesystem, ino)
       IN reply' = IF ~found.some THEN Reply(call, "error", "ENOENT", FALSE)
                   ELSE IF NodeAttr(found.node).panic THEN Reply(call, "panic", 0, FALSE)
                   ELSE Reply(call, "attr", NodeAttr(found.node).attr, FALSE)
    /\ UNCHANGED <<archive, phase, filesystem, scans, opened, cli_args, cache, racers,
                 archive_file>>

ArchiveFsReadlink(ino) ==
    /\ phase = "mounted_archivefs"
    /\ LET call == Call("readlink", ino, 0, 0, 0, "")
           found == Search(filesystem, ino)
       IN reply' = IF ~found.some THEN Reply(call, "error", "ENOENT", FALSE)
                   ELSE IF found.node.kind = "Symlink"
                   THEN Reply(call, "data", found.node.target, FALSE)
                   ELSE Reply(call, "error", "EINVAL", FALSE)
    /\ UNCHANGED <<archive, phase, filesystem, scans, opened, cli_args, cache, racers,
                 archive_file>>

(* The entries readdir adds before the buffer is full or one of them makes
   attr panic: [panic, list] *)
RECURSIVE ReaddirEntries(_, _, _)
ReaddirEntries(children, offset, room) ==
    IF offset >= Len(children) \/ room = 0 THEN [panic |-> FALSE, list |-> <<>>]
    ELSE LET entry == children[offset + 1]
             rest == ReaddirEntries(children, offset + 1, room - 1)
         IN IF NodeAttr(entry).panic THEN [panic |-> TRUE, list |-> <<>>]
            ELSE [panic |-> rest.panic,
                  list |-> <<[ino |-> NodeAttr(entry).attr.ino,
                              offset |-> offset + 1,
                              kind |-> NodeAttr(entry).attr.kind,
                              name |-> entry.name]>> \o rest.list]

ArchiveFsReaddir(ino, offset, room) ==
    /\ phase = "mounted_archivefs"
    /\ LET call == Call("readdir", ino, 0, offset, room, "")
           found == Search(filesystem, ino)
           entries == ReaddirEntries(found.node.children, offset, room)
       IN reply' = IF ~found.some THEN Reply(call, "error", "ENOENT", FALSE)
                   ELSE IF found.node.kind # "Directory"
                   THEN Reply(call, "error", "ENOTDIR", FALSE)
                   ELSE IF entries.panic THEN Reply(call, "panic", 0, FALSE)
                   ELSE Reply(call, "dir", entries.list, FALSE)
    /\ UNCHANGED <<archive, phase, filesystem, scans, opened, cli_args, cache, racers,
                 archive_file>>

(* The entries readdirplus adds: [panic, list] *)
RECURSIVE ReaddirplusEntries(_, _, _)
ReaddirplusEntries(children, offset, room) ==
    IF offset >= Len(children) \/ room = 0 THEN [panic |-> FALSE, list |-> <<>>]
    ELSE LET entry == children[offset + 1]
             rest == ReaddirplusEntries(children, offset + 1, room - 1)
         IN IF NodeAttr(entry).panic THEN [panic |-> TRUE, list |-> <<>>]
            ELSE [panic |-> rest.panic,
                  list |-> <<[ino |-> NodeAttr(entry).attr.ino,
                              offset |-> offset + 1,
                              name |-> entry.name,
                              attr |-> NodeAttr(entry).attr]>> \o rest.list]

ArchiveFsReaddirplus(ino, offset, room) ==
    /\ phase = "mounted_archivefs"
    /\ LET call == Call("readdirplus", ino, 0, offset, room, "")
           found == Search(filesystem, ino)
           entries == ReaddirplusEntries(found.node.children, offset, room)
       IN reply' = IF ~found.some THEN Reply(call, "error", "ENOENT", FALSE)
                   ELSE IF found.node.kind # "Directory"
                   THEN Reply(call, "error", "ENOTDIR", FALSE)
                   ELSE IF entries.panic THEN Reply(call, "panic", 0, FALSE)
                   ELSE Reply(call, "dirplus", entries.list, FALSE)
    /\ UNCHANGED <<archive, phase, filesystem, scans, opened, cli_args, cache, racers,
                 archive_file>>

InitArchiveFs ==
    /\ archive \in Archives
    /\ phase = "start"
    /\ filesystem = [inodes |-> <<>>, fhs |-> <<>>, next_fh |-> 1]
    /\ reply = NoReply
    /\ archive_file = PlainFile
    /\ scans = {}
    /\ opened = <<>>
    /\ cli_args = DefaultArgs
    /\ cache = NoCache
    /\ racers = NoRacers

NextArchiveFs ==
    \/ MainArchiveFs
    \/ \E parent \in Inos, name \in Names : ArchiveFsLookup(parent, name)
    \/ \E ino \in Inos : ArchiveFsGetattr(ino)
    \/ \E ino \in Inos : ArchiveFsReadlink(ino)
    \/ \E ino \in Inos, offset \in 0..MaxEntries, room \in BufferRooms :
          ArchiveFsReaddir(ino, offset, room)
    \/ \E ino \in Inos, offset \in 0..MaxEntries, room \in BufferRooms :
          ArchiveFsReaddirplus(ino, offset, room)

(* The build and the upcalls of ArchiveFs that only read the inode map *)
SpecArchiveFs == InitArchiveFs /\ [][NextArchiveFs]_vars

-----------------------------------------------------------------------------
(* cache.rs: struct EntryCache.  The scratch directory is [exists, files],
   files mapping the path of an entry to the bytes of its cached file. *)

(* What the file system and the archive reader do to one call of open: no
   failure, create_dir_all fails, open_archive fails, or the copy of the
   body fails after `written` bytes *)
Faults ==
    {[kind |-> "none", written |-> 0],
     [kind |-> "mkdir", written |-> 0],
     [kind |-> "archive", written |-> 0],
     [kind |-> "copy", written |-> 0],
     [kind |-> "copy", written |-> 1]}

(* open that takes the first record with the final name of the path *)
EntryOfName(a, path) ==
    LET hits == {i \in DOMAIN a : a[i].path # <<>> /\ path # <<>>
                                  /\ a[i].path[Len(a[i].path)] = path[Len(path)]}
    IN IF hits = {} THEN 0 ELSE Min(hits)

(* The ordinal (one-based) of the first record of the archive with the
   path, 0 if none *)
EntryOfPath(a, path) ==
    LET hits == {i \in DOMAIN a : a[i].path = path}
    IN IF hits = {} THEN 0 ELSE Min(hits)

(* open that removes the file of a copy that failed *)
EntryCacheOpenDropsPartial(c, a, path, fault) ==
    LET made == [c EXCEPT !.exists = TRUE]
        i == EntryOfPath(a, path)
        body == Body(a, i - 1)
        written == IF fault.written < Len(body) THEN fault.written ELSE Len(body)
        result(ok, dir, file, scanned, error, read) ==
            [ok |-> ok, cache |-> dir, file |-> file, scanned |-> scanned,
             error |-> error, read |-> read]
    IN IF ~c.exists /\ fault.kind = "mkdir"
       THEN result(FALSE, c, <<>>, FALSE, "create_dir", 0)
       ELSE IF path \in DOMAIN made.files
       THEN result(TRUE, made, made.files[path], FALSE, "", 0)
       ELSE IF fault.kind = "archive"
       THEN result(FALSE, made, <<>>, FALSE, "open_archive", 0)
       ELSE IF i = 0 THEN result(FALSE, made, <<>>, TRUE, "not_in_archive", Len(a))
       ELSE IF fault.kind = "copy"
       THEN result(FALSE, made, <<>>, TRUE, "copy", i)
       ELSE result(TRUE, [made EXCEPT !.files = MapInsert(@, path, body)], body, TRUE,
                   "", i)

(* EntryCache::open: [ok, cache, file, scanned, error, read]; file is the
   content of the File returned, scanned tells whether the archive was
   opened, error names the Err, read is the number of records taken from
   the archive *)
EntryCacheOpen(c, a, path, fault) ==
    LET made == [c EXCEPT !.exists = TRUE]
        i == EntryOfPath(a, path)
        body == Body(a, i - 1)
        written == IF fault.written < Len(body) THEN fault.written ELSE Len(body)
        result(ok, dir, file, scanned, error, read) ==
            [ok |-> ok, cache |-> dir, file |-> file, scanned |-> scanned,
             error |-> error, read |-> read]
    IN IF ~c.exists /\ fault.kind = "mkdir"
       THEN result(FALSE, c, <<>>, FALSE, "create_dir", 0)
       ELSE IF path \in DOMAIN made.files
       THEN result(TRUE, made, made.files[path], FALSE, "", 0)
       ELSE IF fault.kind = "archive"
       THEN result(FALSE, made, <<>>, FALSE, "open_archive", 0)
       ELSE IF i = 0 THEN result(FALSE, made, <<>>, TRUE, "not_in_archive", Len(a))
       ELSE IF fault.kind = "copy"
       THEN result(FALSE,
                   [made EXCEPT !.files = MapInsert(@, path, SubSeq(body, 1, written))],
                   <<>>, TRUE, "copy", i)
       ELSE result(TRUE, [made EXCEPT !.files = MapInsert(@, path, body)], body, TRUE,
                   "", i)

(* What remove_dir_all does to one call of clean: it removes the directory
   with its files, or it fails after removing the files of `removed` *)
Removals(c) ==
    {[ok |-> TRUE, removed |-> DOMAIN c.files]} \cup
    {[ok |-> FALSE, removed |-> r] : r \in SUBSET DOMAIN c.files}

(* clean that leaves the directory in place *)
EntryCacheCleanKeepsDirectory(c, removal) ==
    [ok |-> TRUE, cache |-> [c EXCEPT !.files = <<>>]]

(* EntryCache::clean: [ok, cache]; remove_dir_all of a directory that does
   not exist is an Err *)
EntryCacheClean(c, removal) ==
    IF ~c.exists THEN [ok |-> FALSE, cache |-> c]
    ELSE IF removal.ok THEN [ok |-> TRUE, cache |-> NoCache]
    ELSE [ok |-> FALSE,
          cache |-> [c EXCEPT !.files = [q \in DOMAIN c.files \ removal.removed |->
                                            c.files[q]]]]

-----------------------------------------------------------------------------
(* EntryCache called on its own, with any path *)

CachePaths == {<<"a">>, <<"b">>, <<"c">>, <<"a", "b">>}

EntryCacheOpenCall(path, fault) ==
    /\ phase = "start"
    /\ LET got == EntryCacheOpen(cache, archive, path, fault)
           call == [fault |-> fault, path |-> path, read |-> got.read]
                      @@ Call("cache_open", 0, 0, 0, 0, "")
       IN /\ cache' = got.cache
          /\ reply' = IF got.ok THEN Reply(call, "file", got.file, got.scanned)
                      ELSE Reply(call, "err", got.error, got.scanned)
    /\ UNCHANGED <<archive, phase, filesystem, scans, opened, cli_args, racers,
                 archive_file>>

EntryCacheCleanCall(removal) ==
    /\ phase = "start"
    /\ cache' = EntryCacheClean(cache, removal).cache
    /\ reply' = Reply([removal |-> removal] @@ Call("cache_clean", 0, 0, 0, 0, ""),
                      IF EntryCacheClean(cache, removal).ok THEN "ok" ELSE "err", 0, FALSE)
    /\ UNCHANGED <<archive, phase, filesystem, scans, opened, cli_args, racers,
                 archive_file>>

InitEntryCache ==
    /\ archive \in ServeArchives
    /\ phase = "start"
    /\ filesystem = [inodes |-> <<>>, fhs |-> <<>>, next_fh |-> 1]
    /\ reply = NoReply
    /\ archive_file = PlainFile
    /\ scans = {}
    /\ opened = <<>>
    /\ cli_args = DefaultArgs
    /\ cache = NoCache
    /\ racers = NoRacers

NextEntryCache ==
    \/ \E path \in CachePaths, fault \in Faults : EntryCacheOpenCall(path, fault)
    \/ \E removal \in Removals(cache) : EntryCacheCleanCall(removal)

SpecEntryCache == InitEntryCache /\ [][NextEntryCache]_vars

-----------------------------------------------------------------------------
(* cache.rs: EntryCache::open run by two processes that mounted the same
   archive path and share the cache directory.  Each process is at a place
   of open (pc): "start" before the check of the cached path, "scan" on a
   miss, "create" at the record of the path, "copy" with the file created,
   "rewind" with the body copied, "opened" with the File returned, "read"
   after reading the File to its end, "failed" with an Err returned. *)

Procs == {1, 2}

Racer(pc) == [pc |-> pc, error |-> "", read |-> <<>>]

(* The body of the record the processes ask for *)
RaceBody == Body(archive, EntryOfPath(archive, racers.path) - 1)

At(p, pc) == racers.procs[p].pc = pc

Goto(p, pc) == racers' = [racers EXCEPT !.procs[p].pc = pc]

(* cache.rs:28-43: the directory is made if missing; cached_path.exists()
   decides between File::open of the cached file and the scan *)
RaceCheck(p) ==
    /\ At(p, "start")
    /\ cache' = [cache EXCEPT !.exists = TRUE]
    /\ Goto(p, IF racers.path \in DOMAIN cache.files THEN "opened" ELSE "scan")
    /\ UNCHANGED <<archive, phase, filesystem, reply, scans, opened, cli_args,
                 archive_file>>

(* cache.rs:46-52: the archive is read up to the record of the path *)
RaceScan(p) ==
    /\ At(p, "scan")
    /\ IF EntryOfPath(archive, racers.path) # 0
       THEN Goto(p, "create")
       ELSE racers' = [racers EXCEPT !.procs[p].pc = "failed",
                                     !.procs[p].error = "not_in_archive"]
    /\ UNCHANGED <<archive, phase, filesystem, reply, scans, opened, cli_args, cache,
                 archive_file>>

(* cache.rs:53-60: create_new fails when the file exists, and the Err is
   returned with ? *)
RaceCreate(p) ==
    /\ At(p, "create")
    /\ IF racers.path \in DOMAIN cache.files
       THEN /\ racers' = [racers EXCEPT !.procs[p].pc = "failed",
                                        !.procs[p].error = "create"]
            /\ UNCHANGED cache
       ELSE /\ cache' = [cache EXCEPT !.files = MapInsert(@, racers.path, <<>>)]
            /\ Goto(p, "copy")
    /\ UNCHANGED <<archive, phase, filesystem, reply, scans, opened, cli_args,
                 archive_file>>

(* cache.rs:61: io::copy writes the body piece by piece, here byte by byte *)
RaceCopy(p) ==
    /\ At(p, "copy")
    /\ LET file == cache.files[racers.path]
       IN IF Len(file) < Len(RaceBody)
          THEN /\ cache' = [cache EXCEPT
                              !.files[racers.path] = Append(@, RaceBody[Len(file) + 1])]
               /\ UNCHANGED racers
          ELSE /\ Goto(p, "rewind")
               /\ UNCHANGED cache
    /\ UNCHANGED <<archive, phase, filesystem, reply, scans, opened, cli_args,
                 archive_file>>

(* cache.rs:62-63: seek to the start, return the File *)
RaceRewind(p) ==
    /\ At(p, "rewind")
    /\ Goto(p, "opened")
    /\ UNCHANGED <<archive, phase, filesystem, reply, scans, opened, cli_args, cache,
                 archive_file>>

(* The caller reads the File it was given from the start to its end *)
RaceRead(p) ==
    /\ At(p, "opened")
    /\ racers' = [racers EXCEPT !.procs[p].pc = "read",
                                !.procs[p].read = cache.files[racers.path]]
    /\ UNCHANGED <<archive, phase, filesystem, reply, scans, opened, cli_args, cache,
                 archive_file>>

(* Both processes ask for the same record of the archive, a regular file
   that is not cached *)
InitRace ==
    /\ archive \in ReadArchives
    /\ phase = "start"
    /\ filesystem = [inodes |-> <<>>, fhs |-> <<>>, next_fh |-> 1]
    /\ reply = NoReply
    /\ archive_file = PlainFile
    /\ scans = {}
    /\ opened = <<>>
    /\ cli_args = DefaultArgs
    /\ cache \in {NoCache, [exists |-> TRUE, files |-> <<>>]}
    /\ racers \in {[path |-> archive[i].path, procs |-> [p \in Procs |-> Racer("start")]] :
                     i \in DOMAIN archive}

NextRace ==
    \E p \in Procs :
        \/ RaceCheck(p)
        \/ RaceScan(p)
        \/ RaceCreate(p)
        \/ RaceCopy(p)
        \/ RaceRewind(p)
        \/ RaceRead(p)

SpecRace == InitRace /\ [][NextRace]_vars

-----------------------------------------------------------------------------
(* fs.rs: the upcalls of ArchiveFs on file handles.  A handle of fhs is the
   File it holds: [path, data]. *)

(* ArchiveFs after an open whose cache open failed: the handle id is
   taken from the counter before the cache is asked *)
FailedOpenKeepsHandle(fs, fh) ==
    [fs EXCEPT !.next_fh = fh + 1,
               !.fhs = MapInsert(@, fh, [path |-> <<>>, data |-> <<>>])]

FailedOpen(fs, fh) == [fs EXCEPT !.next_fh = fh + 1]

(* The call record of open also tells what the file system did to it *)
(* open that stores the file under the id after the one it returns *)
ArchiveFsOpenStoresUnderNext(ino, fault) ==
    /\ phase = "mounted_archivefs"
    /\ LET call == [fault |-> fault] @@ Call("open", ino, 0, 0, 0, "")
           found == Search(filesystem, ino)
           fh == filesystem.next_fh
           got == EntryCacheOpen(cache, archive, found.node.path, fault)
       IN IF ~found.some
          THEN /\ reply' = Reply(call, "error", "ENOENT", FALSE)
               /\ UNCHANGED <<filesystem, opened, cache, scans>>
          ELSE IF found.node.kind = "Directory"
          THEN /\ reply' = Reply(call, "error", "EISDIR", FALSE)
               /\ UNCHANGED <<filesystem, opened, cache, scans>>
          ELSE /\ fh <= MaxFh
               /\ cache' = got.cache
               /\ scans' = IF got.ok /\ got.scanned THEN scans \cup {ino} ELSE scans
               /\ IF got.ok
                  THEN /\ filesystem' = [filesystem EXCEPT
                                           !.next_fh = fh + 1,
                                           !.fhs = MapInsert(@, fh + 1,
                                                     [path |-> found.node.path,
                                                      data |-> got.file])]
                       /\ opened' = MapInsert(opened, fh, ino)
                       /\ reply' = Reply(call, "opened", fh, got.scanned)
                  ELSE /\ filesystem' = FailedOpen(filesystem, fh)
                       /\ UNCHANGED opened
                       /\ reply' = Reply(call, "error", "EIO", got.scanned)
    /\ UNCHANGED <<archive, phase, cli_args, racers,
                 archive_file>>

ArchiveFsOpen(ino, fault) ==
    /\ phase = "mounted_archivefs"
    /\ LET call == [fault |-> fault] @@ Call("open", ino, 0, 0, 0, "")
           found == Search(filesystem, ino)
           fh == filesystem.next_fh
           got == EntryCacheOpen(cache, archive, found.node.path, fault)
       IN IF ~found.some
          THEN /\ reply' = Reply(call, "error", "ENOENT", FALSE)
               /\ UNCHANGED <<filesystem, opened, cache, scans>>
          ELSE IF found.node.kind = "Directory"
          THEN /\ reply' = Reply(call, "error", "EISDIR", FALSE)
               /\ UNCHANGED <<filesystem, opened, cache, scans>>
          ELSE /\ fh <= MaxFh
               /\ cache' = got.cache
               /\ scans' = IF got.ok /\ got.scanned THEN scans \cup {ino} ELSE scans
               /\ IF got.ok
                  THEN /\ filesystem' = [filesystem EXCEPT
                                           !.next_fh = fh + 1,
                                           !.fhs = MapInsert(@, fh,
                                                     [path |-> found.node.path,
                                                      data |-> got.file])]
                       /\ opened' = MapInsert(opened, fh, ino)
                       /\ reply' = Reply(call, "opened", fh, got.scanned)
                  ELSE /\ filesystem' = FailedOpen(filesystem, fh)
                       /\ UNCHANGED opened
                       /\ reply' = Reply(call, "error", "EIO", got.scanned)
    /\ UNCHANGED <<archive, phase, cli_args, racers,
                 archive_file>>

(* seek to offset and one read of up to size bytes; io_ok = FALSE is a
   seek or read that fails *)
ArchiveFsRead(ino, fh, offset, size, io_ok) ==
    /\ phase = "mounted_archivefs"
    /\ fh \in DOMAIN opened => ino = opened[fh]
    /\ LET call == Call("read", ino, fh, offset, size, "")
           data == filesystem.fhs[fh].data
           end == IF offset + size < Len(data) THEN offset + size ELSE Len(data)
       IN reply' = IF fh \notin DOMAIN filesystem.fhs
                   THEN Reply(call, "error", "ENOENT", FALSE)
                   ELSE IF ~io_ok THEN Reply(call, "error", "EIO", FALSE)
                   ELSE Reply(call, "data", SubSeq(data, offset + 1, end), FALSE)
    /\ UNCHANGED <<archive, phase, filesystem, scans, opened, cli_args, cache, racers,
                 archive_file>>

(* release that drops every handle *)
ArchiveFsReleaseDropsAll(fh) ==
    /\ phase = "mounted_archivefs"
    /\ filesystem' = [filesystem EXCEPT !.fhs = <<>>]
    /\ opened' = <<>>
    /\ reply' = Reply(Call("release", 0, fh, 0, 0, ""), "empty", 0, FALSE)
    /\ UNCHANGED <<archive, phase, scans, cli_args, cache, racers,
                 archive_file>>

ArchiveFsRelease(fh) ==
    /\ phase = "mounted_archivefs"
    /\ filesystem' = [filesystem EXCEPT !.fhs = MapRemove(@, fh)]
    /\ opened' = MapRemove(opened, fh)
    /\ reply' = Reply(Call("release", 0, fh, 0, 0, ""), "empty", 0, FALSE)
    /\ UNCHANGED <<archive, phase, scans, cli_args, cache, racers,
                 archive_file>>

(* ArchiveFs::destroy, at the unmount: the Err of clean is logged, the
   upcall returns; value tells whether clean was Ok *)
ArchiveFsDestroy(removal) ==
    /\ phase = "mounted_archivefs"
    /\ phase' = "destroyed"
    /\ cache' = EntryCacheClean(cache, removal).cache
    /\ reply' = Reply([removal |-> removal] @@ Call("destroy", 0, 0, 0, 0, ""),
                      "returned", EntryCacheClean(cache, removal).ok, FALSE)
    /\ UNCHANGED <<archive, filesystem, scans, opened, cli_args, racers,
                 archive_file>>

(* The arguments of read: ArchiveFs::read does not use its ino, which is
   that of the open file, or the root's or the first node's for a handle
   that is not open; the offsets lie at the start of, inside and past a
   body *)
ReadInos == {FuseRootId, FuseRootId + 1}
ReadOffsets == {0, 1, 3}
ReadLengths == {1, 3}

InitArchiveFsServe ==
    /\ archive \in ServeArchives
    /\ phase = "start"
    /\ filesystem = [inodes |-> <<>>, fhs |-> <<>>, next_fh |-> 1]
    /\ reply = NoReply
    /\ archive_file = PlainFile
    /\ scans = {}
    /\ opened = <<>>
    /\ cli_args = DefaultArgs
    /\ cache = NoCache
    /\ racers = NoRacers

NextArchiveFsServe ==
    \/ MainArchiveFs
    \/ \E ino \in Inos, fault \in Faults : ArchiveFsOpen(ino, fault)
    \/ \E ino \in ReadInos \cup {opened[f] : f \in DOMAIN opened}, fh \in Fhs,
          offset \in ReadOffsets, size \in ReadLengths, io_ok \in BOOLEAN :
          ArchiveFsRead(ino, fh, offset, size, io_ok)
    \/ \E fh \in Fhs : ArchiveFsRelease(fh)
    \/ \E removal \in Removals(cache) : ArchiveFsDestroy(removal)

(* The build, the upcalls of ArchiveFs on file handles and the unmount *)
SpecArchiveFsServe == InitArchiveFsServe /\ [][NextArchiveFsServe]_vars

-----------------------------------------------------------------------------
(* The upcalls on file handles of both adapters: the archive is mounted
   with struct Filesystem (Main) or with struct ArchiveFs (MainArchiveFs) *)

InitHandles ==
    /\ archive \in ServeArchives
    /\ phase = "start"
    /\ filesystem = FilesystemNew(<<>>, "Unknown")
    /\ reply = NoReply
    /\ archive_file = PlainFile
    /\ scans = {}
    /\ opened = <<>>
    /\ cli_args = DefaultArgs
    /\ cache = NoCache
    /\ racers = NoRacers

(* The inputs of the upcalls: an open of ArchiveFs meets no failure or an
   archive that cannot be opened, a read starts at the start of or past the
   body *)
HandleFaults == {fault \in Faults : fault.kind \in {"none", "archive"}}
HandleOffsets == {0, 3}
HandleLengths == {1}

NextHandles ==
    \/ Main
    \/ \E ino \in Inos : FsOpen(ino)
    \/ \E fh \in Fhs : FsRelease(fh)
    \/ \E ino \in ReadInos \cup {opened[f] : f \in DOMAIN opened}, fh \in Fhs,
          offset \in HandleOffsets, size \in HandleLengths :
          FsRead(ino, fh, offset, size)
    \/ MainArchiveFs
    \/ \E ino \in Inos, fault \in HandleFaults : ArchiveFsOpen(ino, fault)
    \/ \E ino \in ReadInos \cup {opened[f] : f \in DOMAIN opened}, fh \in Fhs,
          offset \in HandleOffsets, size \in HandleLengths, io_ok \in BOOLEAN :
          ArchiveFsRead(ino, fh, offset, size, io_ok)
    \/ \E fh \in Fhs : ArchiveFsRelease(fh)

SpecHandles == InitHandles /\ [][NextHandles]_vars

-----------------------------------------------------------------------------
(* Every upcall of both adapters on one mount: the archive is mounted with
   struct Filesystem (Main) or with struct ArchiveFs (MainArchiveFs) *)

UpcallNames == {"a", "b"}
UpcallOffsets == {0, 1}

ArchiveFsGetxattr(ino, name) ==
    /\ phase = "mounted_archivefs"
    /\ reply' = Reply(Call("getxattr", ino, 0, 0, 0, name), "error", "ENOSYS", FALSE)
    /\ UNCHANGED <<archive, phase, filesystem, scans, opened, cli_args, cache, racers,
                   archive_file>>

ArchiveFsListxattr(ino) ==
    /\ phase = "mounted_archivefs"
    /\ reply' = Reply(Call("listxattr", ino, 0, 0, 0, ""), "error", "ENOSYS", FALSE)
    /\ UNCHANGED <<archive, phase, filesystem, scans, opened, cli_args, cache, racers,
                   archive_file>>

NextUpcalls ==
    \/ Main
    \/ \E ino \in Inos : FsGetattr(ino)
    \/ \E parent \in Inos, name \in UpcallNames : FsLookup(parent, name)
    \/ \E ino \in Inos, offset \in UpcallOffsets, room \in BufferRooms :
          FsReaddir(ino, offset, room)
    \/ \E ino \in Inos : FsReadlink(ino)
    \/ \E ino \in Inos : FsOpen(ino)
    \/ \E fh \in Fhs : FsRelease(fh)
    \/ \E ino \in ReadInos \cup {opened[f] : f \in DOMAIN opened}, fh \in Fhs,
          offset \in HandleOffsets, size \in HandleLengths :
          FsRead(ino, fh, offset, size)
    \/ MainArchiveFs
    \/ \E parent \in Inos, name \in UpcallNames : ArchiveFsLookup(parent, name)
    \/ \E ino \in Inos : ArchiveFsGetattr(ino)
    \/ \E ino \in Inos : ArchiveFsReadlink(ino)
    \/ \E ino \in Inos, offset \in UpcallOffsets, room \in BufferRooms :
          ArchiveFsReaddir(ino, offset, room)
    \/ \E ino \in Inos, offset \in UpcallOffsets, room \in BufferRooms :
          ArchiveFsReaddirplus(ino, offset, room)
    \/ \E ino \in Inos, fault \in HandleFaults : ArchiveFsOpen(ino, fault)
    \/ \E ino \in ReadInos \cup {opened[f] : f \in DOMAIN opened}, fh \in Fhs,
          offset \in HandleOffsets, size \in HandleLengths, io_ok \in BOOLEAN :
          ArchiveFsRead(ino, fh, offset, size, io_ok)
    \/ \E fh \in Fhs : ArchiveFsRelease(fh)
    \/ \E ino \in Inos, name \in UpcallNames : ArchiveFsGetxattr(ino, name)
    \/ \E ino \in Inos : ArchiveFsListxattr(ino)

SpecUpcalls == InitHandles /\ [][NextUpcalls]_vars

-----------------------------------------------------------------------------
(* What the design says of an archive, stated on the archive itself *)

(* The record creates a node: it has a final name and is a regular file, a
   directory or a symlink *)
IsNodeEntry(e) == e.path # <<>> /\ e.type \in {"Regular", "Symlink", "Directory"}

(* The id of the node of record i (one-based): ids count up from 2 over the
   records that create a node *)
ExpectedId(a, i) == 2 + Cardinality({j \in 1..(i - 1) : IsNodeEntry(a[j])})

(* The record whose node has the id, 0 if none *)
EntryOfId(a, id) ==
    LET hits == {i \in DOMAIN a : IsNodeEntry(a[i]) /\ ExpectedId(a, i) = id}
    IN IF hits = {} THEN 0 ELSE Min(hits)

ExpectedKind(e) ==
    CASE e.type = "Regular" -> "File"
      [] e.type = "Symlink" -> "Symlink"
      [] OTHER -> "Directory"

(* walk as the design describes it: a component that names no child of the
   directory reached so far gives none (0) *)
RECURSIVE StrictWalkFrom(_, _, _)
StrictWalkFrom(nodes, current, components) ==
    IF components = <<>> THEN current
    ELSE IF nodes[current].kind # "Directory" THEN 0
    ELSE IF FirstChild(nodes, current, Head(components)) = 0 THEN 0
    ELSE StrictWalkFrom(nodes, FirstChild(nodes, current, Head(components)),
                        Tail(components))

StrictWalk(nodes, path) == StrictWalkFrom(nodes, 1, path)

(* The hard-link record i has a node in the tree *)
LinkPlaced(nodes, a, i) ==
    /\ a[i].type = "Link"
    /\ a[i].path # <<>>
    /\ StrictWalk(nodes, a[i].path) # 0
    /\ nodes[StrictWalk(nodes, a[i].path)].kind = "Link"

(* The id of the directory that holds the node of record i *)
ParentId(nodes, a, i) == nodes[StrictWalk(nodes, Parent(a[i].path))].id

BaseName(e) == e.path[Len(e.path)]

(* The record's parent directory is not in the tree when the record is
   processed: no earlier record is a directory of that path *)
IsOrphan(a, i) ==
    /\ IsNodeEntry(a[i])
    /\ Parent(a[i].path) # <<>>
    /\ ~\E j \in 1..(i - 1) : a[j].type = "Directory" /\ a[j].path = Parent(a[i].path)

-----------------------------------------------------------------------------
(* C9.  Identifier assignment: in the tree the adapter is mounted with, the
   root has id 1; the nodes created from records are exactly one File,
   Directory or Symlink node per record that creates a node, the node of
   record i carrying the id 2 + (number of earlier records that create a
   node), so that ids are at least 2, pairwise distinct and increasing in
   archive order, and hard links and skipped records consume none. *)
C9_IdentifierAssignment ==
    phase = "mounted" =>
        LET nodes == filesystem.tree
            created == {at \in 2..Len(nodes) : nodes[at].kind # "Link"}
            entries == {i \in DOMAIN archive : IsNodeEntry(archive[i])}
        IN /\ nodes[1].id = 1
           /\ nodes[1].kind = "Directory"
           /\ \A at \in created : nodes[at].id >= 2
           /\ \A x, y \in created : x # y => nodes[x].id # nodes[y].id
           /\ Cardinality(created) = Cardinality(entries)
           /\ \A i \in entries :
                \E at \in created :
                    /\ nodes[at].id = ExpectedId(archive, i)
                    /\ nodes[at].name = BaseName(archive[i])
                    /\ nodes[at].kind = ExpectedKind(archive[i])
           /\ \A i, j \in entries :
                i < j => ExpectedId(archive, i) < ExpectedId(archive, j)

(* A mounted archive in which a hard link or a skipped record stands between
   two records that create nodes *)
C9_Witness ==
    /\ phase = "mounted"
    /\ \E i, j, k \in DOMAIN archive :
          /\ i < j /\ j < k
          /\ IsNodeEntry(archive[i])
          /\ ~IsNodeEntry(archive[j])
          /\ IsNodeEntry(archive[k])
          /\ \E at \in 2..Len(filesystem.tree) :
                filesystem.tree[at].id = 3 /\ filesystem.tree[at].name = BaseName(archive[k])

-----------------------------------------------------------------------------
(* C10.  Symlink attributes: a getattr reply for a Symlink node reports kind
   Symlink, perm 0o777 and a size equal to the byte length of the link
   target of the record the node was built from, and readlink on a symlink's
   id replies exactly those target bytes. *)
C10_SymlinkAttributes ==
    LET i == EntryOfId(archive, reply.call.ino)
    IN /\ (reply.op = "getattr" /\ i # 0 /\ archive[i].type = "Symlink") =>
             /\ reply.kind = "attr"
             /\ reply.value.kind = "Symlink"
             /\ reply.value.perm = 511
             /\ reply.value.size = Len(archive[i].link)
       /\ (reply.op = "readlink" /\ i # 0 /\ archive[i].type = "Symlink") =>
             /\ reply.kind = "data"
             /\ reply.value = archive[i].link

-----------------------------------------------------------------------------
(* C5.  Orphan safety for missing parents: when the archive holds a record
   whose parent directory is not in the tree at the time the record is
   processed, the build does not abort: the adapter is mounted, the record
   has no node, and every other record that creates a node has its node. *)
C5_OrphanSafety ==
    (phase # "start" /\ \E i \in DOMAIN archive : IsOrphan(archive, i)) =>
        /\ phase = "mounted"
        /\ \A i \in DOMAIN archive :
              IsNodeEntry(archive[i]) =>
                  (IsOrphan(archive, i) <=> StrictWalk(filesystem.tree, archive[i].path) = 0)

-----------------------------------------------------------------------------
(* C6.  Unresolvable hard link: when a hard-link record x names a target
   path that no record of the archive has, the build completes, no link
   count differs from 1 on account of x, and lookup(parent(x), basename(x))
   replies ENOENT. *)
C6_UnresolvableHardLink ==
    \A i \in DOMAIN archive :
        (/\ archive[i].type = "Link"
         /\ archive[i].path # <<>>
         /\ ~\E j \in DOMAIN archive : archive[j].path = archive[i].link
         /\ phase # "start") =>
            /\ phase = "mounted"
            /\ StrictWalk(filesystem.tree, archive[i].path) = 0
            /\ (/\ reply.op = "lookup"
                /\ StrictWalk(filesystem.tree, Parent(archive[i].path)) # 0
                /\ reply.call.ino = ParentId(filesystem.tree, archive, i)
                /\ reply.call.name = BaseName(archive[i])) =>
                   (reply.kind = "error" /\ reply.value = "ENOENT")

-----------------------------------------------------------------------------
(* C3.  Link counting: a getattr reply for a File or Symlink node t reports
   nlink = 1 + the number of hard-link records that have a node in the tree
   and whose target path, followed through hard links, ends at t. *)
C3_LinkCounting ==
    (reply.op = "getattr" /\ reply.kind = "attr"
        /\ reply.value.kind \in {"RegularFile", "Symlink"}) =>
        LET nodes == filesystem.tree
            links == {i \in DOMAIN archive :
                        /\ LinkPlaced(nodes, archive, i)
                        /\ StrictWalk(nodes, archive[i].link) # 0
                        /\ NodeId(nodes, StrictWalk(nodes, archive[i].link))
                              = reply.value.ino}
        IN reply.value.nlink = 1 + Cardinality(links)

-----------------------------------------------------------------------------
(* C4.  Hard-link transparency: for a hard-link record h -> t that has a
   node in the tree and whose target path t names a File or Symlink of the
   tree (or a hard link to one),
   lookup(parent(h), basename(h)) replies an entry whose attributes are
   those getattr replies for t: the id of t, and the same size, kind, perm,
   nlink, uid, gid and times. *)
C4_HardLinkTransparency ==
    reply.op = "lookup" =>
        \A i \in DOMAIN archive :
            LET nodes == filesystem.tree
                t == StrictWalk(nodes, archive[i].link)
            IN (/\ LinkPlaced(nodes, archive, i)
                /\ t # 0
                /\ Attr(nodes, t).kind \in {"RegularFile", "Symlink"}
                /\ reply.call.ino = ParentId(nodes, archive, i)
                /\ reply.call.name = BaseName(archive[i])) =>
                   /\ reply.kind = "entry"
                   /\ reply.value.ino = NodeId(nodes, t)
                   /\ reply.value = Attr(nodes, TreeFind(nodes, NodeId(nodes, t)))

-----------------------------------------------------------------------------
(* C2.  Node::read on the File node of a record of size s, with an offset
   0 <= o <= s and a length n >= 0 or unset, returns Ok with the bytes
   body[o : o + len], len = min(n, s - o), or s - o when the length is
   unset. *)
C2_NodeReadSlice ==
    LET i == EntryOfId(archive, reply.call.ino)
        s == archive[i].size
        o == reply.call.offset
        n == reply.call.size
        len == IF n = None \/ n > s - o THEN s - o ELSE n
    IN (reply.op = "node_read" /\ i # 0 /\ archive[i].type = "Regular" /\ o <= s) =>
          /\ reply.kind = "ok"
          /\ Len(reply.value) = len
          /\ reply.value = SubSeq(Body(archive, i - 1), o + 1, o + len)

-----------------------------------------------------------------------------
(* C1.  Content fidelity through the adapter: a read on a handle that open
   returned for the id of a regular file e, at an offset 0 <= o <= size(e)
   and with any size n >= 0, replies exactly body(e)[o : min(o + n, size(e))],
   whatever reads came before on the handle. *)
C1_ContentFidelity ==
    LET i == EntryOfId(archive, reply.call.ino)
        s == archive[i].size
        o == reply.call.offset
        n == reply.call.size
        end == IF o + n < s THEN o + n ELSE s
    IN (/\ reply.op = "read"
        /\ reply.call.fh \in DOMAIN opened
        /\ i # 0
        /\ archive[i].type = "Regular"
        /\ o <= s) =>
           /\ reply.kind = "data"
           /\ reply.value = SubSeq(Body(archive, i - 1), o + 1, end)

-----------------------------------------------------------------------------
(* C7.  No upcall handler panics: every upcall, whatever its ino, fh, offset
   and size, ends with a reply that is data or an error code. *)
C7_NoHandlerPanics == reply.kind # "panic"

-----------------------------------------------------------------------------
(* C8.  Cache idempotence: once a read has materialised the body of an
   entry from a scan of the archive, no later upcall for that entry scans
   the archive again. *)
C8_ScanOncePerEntry ==
    [][(reply'.op = "read" /\ reply'.scanned /\ reply'.call.ino \in scans)
          => UNCHANGED filesystem]_vars

-----------------------------------------------------------------------------
(* The build under every command line, over records whose header fields
   (mode, uid, gid, user and group name) vary: a mode may carry bits above
   0o777, Bad is a field that does not decode, "" a header without a name *)

H(type, path, link, mode, owner) ==
    [E(type, path, link, 1) EXCEPT !.mode = mode, !.uid = owner[1], !.uname = owner[2],
                                   !.gid = owner[3], !.gname = owner[4]]

Owners ==
    { <<1000, "", 100, "">>,
      <<1000, "root", 100, "root">>,
      <<1000, "nobody", 100, "nobody">>,
      <<Bad, "root", Bad, "root">>,
      <<Bad, "root", Bad, "nobody">>,
      <<Bad, "", 100, "">>,
      <<1000, "nobody", Bad, "root">> }

HeaderModes == {33188, 16877, Bad}

HeaderUniverse ==
    LET shapes == { <<"Regular", <<"a">>, <<>> >>, <<"Directory", <<"b">>, <<>> >>,
                    <<"Symlink", <<"c">>, <<46>> >> }
    IN {H(s[1], s[2], s[3], 420, o) : s \in shapes, o \in Owners}
       \cup {H(s[1], s[2], s[3], m, <<1000, "", 100, "">>) : s \in shapes, m \in HeaderModes}

HeaderArchives == {a \in SeqsUpTo(HeaderUniverse, 2) : DistinctPaths(a)}

ArgsUniverse ==
    {Args(n, u, g, m) : n \in BOOLEAN, u \in {None, 5}, g \in {None, 6},
                        m \in {None, 416, 4095}}

InitHeaders ==
    /\ archive \in HeaderArchives
    /\ phase = "start"
    /\ filesystem = FilesystemNew(<<>>, "Unknown")
    /\ reply = NoReply
    /\ archive_file = PlainFile
    /\ scans = {}
    /\ opened = <<>>
    /\ cli_args \in ArgsUniverse
    /\ cache = NoCache
    /\ racers = NoRacers

NextHeaders ==
    \/ Main
    \/ \E ino \in Inos : FsGetattr(ino)

(* The build and getattr under every command line *)
SpecHeaders == InitHeaders /\ [][NextHeaders]_vars

-----------------------------------------------------------------------------
(* C11.  Permission computation: with force_mode = m every File node has
   perms m & 0o777 and every Directory node built from a record has
   (m & 0o777) with every read bit copied into the execute bit of its
   triple; with force_mode unset the perms are the header mode masked with
   0o777; the perms always fit in 9 bits, and getattr reports them. *)
OctDigit(m, k) == (m \div (8 ^ k)) % 8

SearchableDigit(d) == IF d >= 4 /\ d % 2 = 0 THEN d + 1 ELSE d

ExpectedPerms(forced, e) ==
    IF forced = None THEN e.mode % 512
    ELSE IF e.type = "Directory"
    THEN SearchableDigit(OctDigit(forced, 0))
         + 8 * SearchableDigit(OctDigit(forced, 1))
         + 64 * SearchableDigit(OctDigit(forced, 2))
    ELSE forced % 512

C11_PermissionComputation ==
    phase = "mounted" =>
        LET nodes == filesystem.tree
        IN /\ \A at \in 2..Len(nodes) :
                nodes[at].kind \in {"File", "Directory"} =>
                    /\ nodes[at].perms \in 0..511
                    /\ EntryOfId(archive, nodes[at].id) # 0
                    /\ nodes[at].perms =
                          ExpectedPerms(cli_args.mode,
                                        archive[EntryOfId(archive, nodes[at].id)])
           /\ (reply.op = "getattr" /\ reply.kind = "attr" /\ reply.value.ino >= 2
                  /\ reply.value.kind \in {"RegularFile", "Directory"}) =>
                 reply.value.perm =
                    ExpectedPerms(cli_args.mode,
                                  archive[EntryOfId(archive, reply.value.ino)])

(* --mode 640 mounted with a file of perms 0o640 and a directory of 0o750,
   the directory's attributes read *)
C11_Witness ==
    /\ phase = "mounted"
    /\ cli_args.mode = 416
    /\ \E at \in 2..Len(filesystem.tree) :
          filesystem.tree[at].kind = "File" /\ filesystem.tree[at].perms = 416
    /\ reply.op = "getattr" /\ reply.kind = "attr"
    /\ reply.value.kind = "Directory" /\ reply.value.ino >= 2
    /\ reply.value.perm = 488

-----------------------------------------------------------------------------
(* C12.  Owner resolution precedence: the uid of every node built from a
   record is force_uid if set; otherwise the raw header uid if numeric_owner
   is set; otherwise the host's id for the header's user name if the name is
   present and known, else the raw header uid; likewise for the gid.  The
   build fails exactly when one of these yields no value for a record (or
   the record's mode is needed and unreadable). *)
ExpectedOwner(forced, numeric, name, known, raw) ==
    IF forced # None THEN forced
    ELSE IF numeric THEN raw
    ELSE IF name # "" /\ known # None THEN known
    ELSE raw

ExpectedUid(e) ==
    ExpectedOwner(cli_args.uid, cli_args.numeric_owner, e.uname, UserByName(e.uname), e.uid)

ExpectedGid(e) ==
    ExpectedOwner(cli_args.gid, cli_args.numeric_owner, e.gname, GroupByName(e.gname), e.gid)

ModeUnreadable(e) ==
    e.type \in {"Regular", "Directory"} /\ cli_args.mode = None /\ e.mode = Bad

C12_OwnerResolution ==
    LET fails(e) == IsNodeEntry(e)
                    /\ (ExpectedUid(e) = Bad \/ ExpectedGid(e) = Bad \/ ModeUnreadable(e))
    IN /\ phase = "failed" <=> (phase # "start" /\ \E i \in DOMAIN archive : fails(archive[i]))
       /\ phase = "mounted" =>
             \A i \in DOMAIN archive :
                 IsNodeEntry(archive[i]) =>
                     \E at \in 2..Len(filesystem.tree) :
                         /\ filesystem.tree[at].id = ExpectedId(archive, i)
                         /\ filesystem.tree[at].uid = ExpectedUid(archive[i])
                         /\ filesystem.tree[at].gid = ExpectedGid(archive[i])
       /\ (reply.op = "getattr" /\ reply.kind = "attr" /\ reply.value.ino >= 2) =>
             /\ reply.value.uid = ExpectedUid(archive[EntryOfId(archive, reply.value.ino)])
             /\ reply.value.gid = ExpectedGid(archive[EntryOfId(archive, reply.value.ino)])

(* Without --numeric-owner and --uid, a record whose raw uid is unreadable
   and whose user name the host knows is built with the host's id, and its
   attributes are read *)
C12_Witness ==
    /\ phase = "mounted"
    /\ ~cli_args.numeric_owner /\ cli_args.uid = None /\ cli_args.gid = None
    /\ \E i \in DOMAIN archive :
          /\ archive[i].uid = Bad /\ archive[i].uname = "root"
          /\ reply.op = "getattr" /\ reply.kind = "attr"
          /\ reply.value.ino = ExpectedId(archive, i)
          /\ reply.value.uid = 0

-----------------------------------------------------------------------------
(* The Directory node of the tree that carries the id, 0 if none *)
DirectoryOfId(nodes, id) ==
    LET hits == {at \in 1..Len(nodes) : nodes[at].kind = "Directory" /\ nodes[at].id = id}
    IN IF hits = {} THEN 0 ELSE Min(hits)

(* The id is the root's or that of a node created from a record *)
KnownId(a, id) == id = 1 \/ EntryOfId(a, id) # 0

(* C13.  lookup(parent, name): when no node has the id parent the reply is
   ENOENT; when the node with the id parent is not a Directory the reply is
   ENOTDIR; when it is a Directory the reply is the attributes and id of its
   first child named name, or ENOENT when no child has that name. *)
C13_LookupReply ==
    reply.op = "lookup" =>
        LET nodes == filesystem.tree
            parent == reply.call.ino
            dir == DirectoryOfId(nodes, parent)
        IN IF ~KnownId(archive, parent)
           THEN reply.kind = "error" /\ reply.value = "ENOENT"
           ELSE IF dir = 0
           THEN reply.kind = "error" /\ reply.value = "ENOTDIR"
           ELSE IF FirstChild(nodes, dir, reply.call.name) = 0
           THEN reply.kind = "error" /\ reply.value = "ENOENT"
           ELSE /\ reply.kind = "entry"
                /\ reply.value = Attr(nodes, FirstChild(nodes, dir, reply.call.name))

-----------------------------------------------------------------------------
(* C14.  readlink(ino): for a Symlink node the reply is the raw target bytes
   of its record; for the root and for a node of any other kind (File,
   Directory) the reply is EINVAL; for an id no node has the reply is
   ENOENT. *)
C14_ReadlinkReply ==
    reply.op = "readlink" =>
        LET ino == reply.call.ino
            i == EntryOfId(archive, ino)
        IN IF ~KnownId(archive, ino)
           THEN reply.kind = "error" /\ reply.value = "ENOENT"
           ELSE IF ino # 1 /\ archive[i].type = "Symlink"
           THEN reply.kind = "data" /\ reply.value = archive[i].link
           ELSE reply.kind = "error" /\ reply.value = "EINVAL"

-----------------------------------------------------------------------------
(* The id is the root's or that of a node created from a directory record *)
IsDirectoryId(a, id) ==
    id = 1 \/ (EntryOfId(a, id) # 0 /\ a[EntryOfId(a, id)].type = "Directory")

(* C15.  open(ino) on a Directory node, the root included, is rejected with
   EISDIR: the step returns no handle, adds no entry to the handle map
   (the adapter's state is as before) and leaves the cache as it was. *)
C15_OpenDirectory ==
    [][(reply'.op = "open" /\ IsDirectoryId(archive, reply'.call.ino)) =>
          /\ reply'.kind = "error"
          /\ reply'.value = "EISDIR"
          /\ filesystem' = filesystem
          /\ cache' = cache
          /\ scans' = scans]_vars

-----------------------------------------------------------------------------
(* The cache cannot hand out the file of the path: its directory cannot be
   made, or the file is not cached yet and the archive cannot be opened, has
   no record of the path, or the copy of the body breaks off *)
CacheFails(c, a, path, fault) ==
    \/ ~c.exists /\ fault.kind = "mkdir"
    \/ /\ path \notin DOMAIN c.files
       /\ \/ fault.kind \in {"archive", "copy"}
          \/ \A i \in DOMAIN a : a[i].path # path

(* C16.  open(ino) on a node that is not a Directory, when the cache fails
   to materialize the entry, replies EIO and stores nothing: the handle map
   after the step is the one before it; when the cache succeeds the step
   returns a handle that is not in the map, not below the handle counter and
   below the counter after the step; and no step lowers the counter, so
   that an open after a failed one returns a handle never returned before. *)
C16_OpenCacheFailure ==
    [][/\ phase = "mounted_archivefs" =>
             filesystem'.next_fh >= filesystem.next_fh
       /\ (/\ phase = "mounted_archivefs"
           /\ reply'.op = "open"
           /\ reply'.call.ino \in DOMAIN filesystem.inodes
           /\ filesystem.inodes[reply'.call.ino].kind # "Directory") =>
              IF CacheFails(cache, archive, filesystem.inodes[reply'.call.ino].path,
                            reply'.call.fault)
              THEN /\ reply'.kind = "error"
                   /\ reply'.value = "EIO"
                   /\ filesystem'.fhs = filesystem.fhs
              ELSE /\ reply'.kind = "opened"
                   /\ reply'.value \notin DOMAIN filesystem.fhs
                   /\ reply'.value >= filesystem.next_fh
                   /\ reply'.value < filesystem'.next_fh
                   /\ DOMAIN filesystem'.fhs = DOMAIN filesystem.fhs \cup {reply'.value}
                   /\ \A fh \in DOMAIN filesystem.fhs :
                         filesystem'.fhs[fh] = filesystem.fhs[fh]]_vars

(* An open that succeeds after an open of the same file failed in the copy
   of the body: the handle holds the truncated file the failed open left *)
C16_Witness ==
    /\ phase = "mounted_archivefs"
    /\ reply.op = "open"
    /\ reply.kind = "opened"
    /\ reply.value >= 2
    /\ reply.value \in DOMAIN filesystem.fhs
    /\ Len(filesystem.fhs[reply.value].data) < 2

-----------------------------------------------------------------------------
(* The handle map of the adapter that is mounted *)
HandleMap == IF phase = "mounted" THEN filesystem.handles ELSE filesystem.fhs

(* The last upcall was release(fh) of a handle id that open had taken from
   the counter *)
Released(fh) ==
    reply.op = "release" /\ reply.call.fh = fh /\ fh < filesystem.next_fh

ReadReplied(fh) == reply.op = "read" /\ reply.call.fh = fh

(* C17.  read on a handle that is not in the handle map replies ENOENT, and
   once a handle has been released every later read on it replies ENOENT,
   whatever opens happen in between: its id is not handed out again. *)
C17_ReadAfterRelease ==
    /\ [](\A fh \in Fhs :
            (ReadReplied(fh) /\ fh \notin DOMAIN HandleMap) =>
                (reply.kind = "error" /\ reply.value = "ENOENT"))
    /\ \A fh \in Fhs :
          [](Released(fh) =>
                [](ReadReplied(fh) => (reply.kind = "error" /\ reply.value = "ENOENT")))

(* A read on a released handle of struct Filesystem, where every id below
   the counter has been handed out, that is answered while another handle,
   opened later, is in the map *)
C17_Witness ==
    /\ phase = "mounted"
    /\ reply.op = "read"
    /\ reply.call.fh < filesystem.next_fh - 1
    /\ reply.call.fh \notin DOMAIN HandleMap
    /\ \E other \in DOMAIN HandleMap : other > reply.call.fh

-----------------------------------------------------------------------------
(* The tree of the adapter that is mounted *)
TreeOf == IF phase = "mounted" THEN filesystem.tree ELSE filesystem.inodes

(* C18.  release(ino, fh) always replies success, for a handle that is in
   the handle map and for one that is not; the handle map after the step is
   the one before it without fh, every other handle as it was, and the
   handle counter, the tree and the cache are unchanged. *)
C18_ReleaseFrame ==
    [][reply'.op = "release" =>
          /\ reply'.kind = "empty"
          /\ DOMAIN HandleMap' = DOMAIN HandleMap \ {reply'.call.fh}
          /\ \A fh \in DOMAIN HandleMap' : HandleMap'[fh] = HandleMap[fh]
          /\ filesystem'.next_fh = filesystem.next_fh
          /\ TreeOf' = TreeOf
          /\ cache' = cache
          /\ scans' = scans]_vars

(* A release of a handle id that was never handed out, answered while two
   handles are open and a file is cached *)
C18_Witness ==
    /\ phase = "mounted_archivefs"
    /\ reply.op = "release"
    /\ reply.kind = "empty"
    /\ reply.call.fh = 0
    /\ Cardinality(DOMAIN HandleMap) = 2
    /\ DOMAIN cache.files # {}

-----------------------------------------------------------------------------
(* The records of the archive that are children of the directory of the
   path, in archive order: records with a final name whose parent is the
   directory and comes earlier in the archive, hard links to a path that has
   no record left out *)
BuiltChildren(a, dirpath) ==
    LET idx == {i \in DOMAIN a :
                  /\ a[i].path # <<>>
                  /\ a[i].type \in {"Regular", "Directory", "Symlink", "Link"}
                  /\ Parent(a[i].path) = dirpath
                  /\ dirpath # <<>> =>
                        \E j \in 1..(i - 1) :
                            a[j].type = "Directory" /\ a[j].path = dirpath
                  /\ a[i].type = "Link" => EntryOfPath(a, a[i].link) # 0}
        Nth(k) == CHOOSE i \in idx : Cardinality({j \in idx : j < i}) = k - 1
    IN [k \in 1..Cardinality(idx) |-> a[Nth(k)]]

(* The node of the inode map a record stands for: its own, or for a hard
   link that of its target *)
InodeOfEntry(inodes, e) ==
    LET path == IF e.type = "Link" THEN e.link ELSE e.path
    IN CHOOSE ino \in DOMAIN inodes : inodes[ino].path = path

(* C19.  readdir enumeration: for a Directory whose children built from the
   archive are c[0..k), readdir(ino, offset) with a buffer that holds room
   entries emits exactly c[offset], c[offset + 1], ... in order, each as
   (id of c[i], next offset i + 1, kind, name), and stops before c[k) only
   when the buffer is full; it emits no entry that is not a child built from
   the archive, no '.' and no '..'. *)
C19_ReaddirEnumeration ==
    (/\ phase = "mounted_archivefs"
     /\ reply.op = "readdir"
     /\ reply.call.ino \in DOMAIN filesystem.inodes
     /\ filesystem.inodes[reply.call.ino].kind = "Directory") =>
        LET inodes == filesystem.inodes
            c == BuiltChildren(archive, inodes[reply.call.ino].path)
            offset == reply.call.offset
            left == IF Len(c) > offset THEN Len(c) - offset ELSE 0
            count == IF left < reply.call.size THEN left ELSE reply.call.size
        IN /\ reply.kind = "dir"
           /\ Len(reply.value) = count
           /\ \A j \in 1..count :
                 /\ reply.value[j].name = BaseName(c[offset + j])
                 /\ reply.value[j].offset = offset + j
                 /\ reply.value[j].ino = InodeOfEntry(inodes, c[offset + j])
                 /\ reply.value[j].kind =
                       NodeAttr(inodes[InodeOfEntry(inodes, c[offset + j])]).attr.kind

-----------------------------------------------------------------------------
(* The (ino, next offset, name) of the entries of a directory reply *)
Emitted(list) ==
    [j \in 1..Len(list) |->
        [ino |-> list[j].ino, offset |-> list[j].offset, name |-> list[j].name]]

(* The id is known to the adapter that is mounted *)
KnownIno(ino) ==
    IF phase = "mounted" THEN TreeFind(filesystem.tree, ino) # 0
    ELSE ino \in DOMAIN filesystem.inodes

(* The id is that of a Directory of the adapter that is mounted *)
DirectoryIno(ino) ==
    IF phase = "mounted" THEN DirectoryOfId(filesystem.tree, ino) # 0
    ELSE ino \in DOMAIN filesystem.inodes /\ filesystem.inodes[ino].kind = "Directory"

(* C20.  readdir and readdirplus: for an ino that no node has the reply is
   ENOENT, for a node that is not a Directory it is ENOTDIR, and no entry is
   emitted in either case; for a Directory readdirplus emits the same
   sequence of (ino, next offset, name) as readdir emits for the same
   offset and room. *)
C20_ReaddirErrors ==
    reply.op \in {"readdir", "readdirplus"} =>
        IF ~KnownIno(reply.call.ino)
        THEN reply.kind = "error" /\ reply.value = "ENOENT"
        ELSE IF ~DirectoryIno(reply.call.ino)
        THEN reply.kind = "error" /\ reply.value = "ENOTDIR"
        ELSE reply.kind = "dirplus" =>
                Emitted(reply.value) =
                    Emitted(ReaddirEntries(filesystem.inodes[reply.call.ino].children,
                                           reply.call.offset, reply.call.size).list)

-----------------------------------------------------------------------------
(* C21 as stated.  destroy returns normally and after it the cache
   directory of the archive does not exist, also when the directory was
   never created or its removal fails. *)
C21_DestroyAsStated ==
    reply.op = "destroy" => (reply.kind = "returned" /\ ~cache.exists)

(* C21.  destroy invokes the cache cleanup and never propagates a failure:
   it returns normally when the directory was never created and when its
   removal fails; after it the directory does not exist unless the removal
   of an existing directory failed, in which case the directory still
   exists and holds no file it did not hold before. *)
C21_DestroyCleansCache ==
    [][reply'.op = "destroy" =>
          /\ reply'.kind = "returned"
          /\ phase' = "destroyed"
          /\ filesystem' = filesystem
          /\ IF cache.exists /\ ~reply'.call.removal.ok
             THEN /\ cache'.exists
                  /\ DOMAIN cache'.files \subseteq DOMAIN cache.files
             ELSE cache' = NoCache]_vars

(* destroy after a file was cached, with a removal that succeeds *)
C21_Witness ==
    /\ reply.op = "destroy"
    /\ reply.call.removal.ok
    /\ scans # {}
    /\ cache = NoCache
    /\ racers = NoRacers

-----------------------------------------------------------------------------
(* C22.  Cache miss without a matching entry: when the path asked for is
   not cached and no record of the archive has it, and neither the cache
   directory nor the archive fails to open, EntryCache::open fails with
   "entry does not exist in archive" after taking every record from the
   archive, and creates no cache file: the cached files are those before
   the call. *)
C22_MissWithoutEntry ==
    [][(/\ reply'.op = "cache_open"
        /\ reply'.call.path \notin DOMAIN cache.files
        /\ \A i \in DOMAIN archive : archive[i].path # reply'.call.path
        /\ ~(reply'.call.fault.kind = "mkdir" /\ ~cache.exists)
        /\ reply'.call.fault.kind # "archive") =>
          /\ reply'.kind = "err"
          /\ reply'.value = "not_in_archive"
          /\ reply'.call.read = Len(archive)
          /\ cache'.files = cache.files]_vars

(* A failed open for a path of no record while another file is cached and
   the archive has two records *)
C22_Witness ==
    /\ reply.op = "cache_open"
    /\ reply.kind = "err"
    /\ reply.value = "not_in_archive"
    /\ Len(archive) >= 2
    /\ reply.call.read = Len(archive)
    /\ DOMAIN cache.files # {}

-----------------------------------------------------------------------------
(* C23.  Concurrent cache open: when two processes call open for the same
   uncached entry and interleave between the existence check, the
   create-exclusive creation, the copy of the body and the rewind, no open
   fails (the process that loses the creation opens the existing file), and
   the File each open returns yields the complete body of the entry. *)
C23_ConcurrentOpen ==
    phase = "start" =>
        \A p \in DOMAIN racers.procs :
            /\ racers.procs[p].pc # "failed"
            /\ racers.procs[p].pc = "read" => racers.procs[p].read = RaceBody

-----------------------------------------------------------------------------
(* The compression the start of an archive file stands for *)
ExpectedCompression(content) ==
    CASE StartsWith(content, <<31, 139>>) -> "Gzip"
      [] StartsWith(content, <<66, 90, 104>>) -> "Bzip2"
      [] StartsWith(content, <<253, 55, 122, 88, 90, 0>>) -> "Xz"
      [] StartsWith(content, <<40, 181, 47, 253>>) -> "Zstd"
      [] OTHER -> "Unknown"

(* C24.  Compression detection: for every archive file main goes on to
   read the archive with the gzip decoder iff the file starts with 1F 8B,
   bzip2 iff 42 5A 68, xz iff FD 37 7A 58 5A 00, zstd iff 28 B5 2F FD, and
   with no decoder for every other content; open_archive likewise reads a
   file of no known compressed type undecoded rather than rejecting it. *)
C24_CompressionDetection ==
    /\ phase # "start" =>
          /\ phase = "mounted"
          /\ filesystem.open_archive = ExpectedCompression(archive_file)
    /\ (/\ reply.op = "open_archive"
        /\ reply.call.mime_type \notin {"application/gzip", "application/x-xz",
                                        "application/x-bzip2", "application/zstd"}) =>
          (reply.kind = "archive" /\ reply.value = "Unknown")

-----------------------------------------------------------------------------
(* C25.  walk(path): the empty path returns the root; a path whose every
   component names a child of the directory reached so far returns the node
   reached; a path with a component that is not a child of the directory
   reached so far returns none. *)
C25_Walk ==
    reply.op = "walk" =>
        /\ reply.call.path = <<>> => reply.value = 1
        /\ reply.value = StrictWalk(filesystem.tree, reply.call.path)

-----------------------------------------------------------------------------
(* The kind and value of the reply of struct Filesystem to a call that
   reads the tree, on the tree given *)
FilesystemAnswer(tree, call) ==
    LET node == TreeFind(tree, call.ino)
        child == TreeLookup(tree, call.ino, call.name)
        enoent == <<"error", "ENOENT">>
    IN CASE call.op = "getattr" ->
              IF node = 0 THEN enoent ELSE <<"attr", Attr(tree, node)>>
         [] call.op = "lookup" ->
              IF child = 0 THEN enoent ELSE <<"entry", Attr(tree, child)>>
         [] call.op = "readlink" ->
              IF node = 0 \/ ~LinkTarget(tree, node).some THEN enoent
              ELSE <<"data", LinkTarget(tree, node).target>>
         [] call.op = "readdir" ->
              IF node = 0 \/ ~Children(tree, node).has THEN enoent
              ELSE <<"dir", DirEntries(tree, Children(tree, node).list,
                                       call.offset, call.size)>>

(* The same of struct ArchiveFs, on the inode index given *)
ArchiveFsAnswer(inodes, call) ==
    LET node == inodes[call.ino]
        hits == {k \in 1..Len(node.children) : node.children[k].name = call.name}
        child == node.children[Min(hits)]
        entries == ReaddirEntries(node.children, call.offset, call.size)
        panic == <<"panic", 0>>
    IN IF call.ino \notin DOMAIN inodes THEN <<"error", "ENOENT">>
       ELSE CASE call.op = "getattr" ->
                   IF NodeAttr(node).panic THEN panic ELSE <<"attr", NodeAttr(node).attr>>
              [] call.op = "lookup" ->
                   IF node.kind # "Directory" THEN <<"error", "ENOTDIR">>
                   ELSE IF hits = {} THEN <<"error", "ENOENT">>
                   ELSE IF NodeAttr(child).panic THEN panic
                   ELSE <<"entry", NodeAttr(child).attr>>
              [] call.op = "readlink" ->
                   IF node.kind = "Symlink" THEN <<"data", node.target>>
                   ELSE <<"error", "EINVAL">>
              [] call.op = "readdir" ->
                   IF node.kind # "Directory" THEN <<"error", "ENOTDIR">>
                   ELSE IF entries.panic THEN panic
                   ELSE <<"dir", entries.list>>

(* What an upcall on a mounted tree does, as C26 has it *)
UpcallKeepsTree ==
    phase \in {"mounted", "mounted_archivefs"} =>
        /\ phase' = phase
        /\ TreeOf' = TreeOf
        /\ reply'.op \in {"lookup", "getattr", "readlink", "readdir"} =>
              <<reply'.kind, reply'.value>> =
                  (IF phase = "mounted" THEN FilesystemAnswer(TreeOf, reply'.call)
                   ELSE ArchiveFsAnswer(TreeOf, reply'.call))

(* C26.  Tree immutability: after the build no upcall (lookup, getattr,
   readlink, open, read, release, readdir, readdirplus, getxattr,
   listxattr) changes the tree or
   the inode index; the reply of lookup, getattr, readlink and readdir is a
   function of its arguments and of that unchanged tree, hence the same
   before and after any sequence of upcalls. *)
C26_TreeImmutable == [][UpcallKeepsTree]_vars

(* A getattr answered after a file was opened, read and released *)
C26_Witness ==
    /\ phase = "mounted"
    /\ reply.op = "getattr"
    /\ reply.kind = "attr"
    /\ scans # {}
    /\ filesystem.next_fh > 0
    /\ filesystem.handles = <<>>

-----------------------------------------------------------------------------
(* main.rs: the mount options and the mount *)

(* struct Args with the flags that steer the mount *)
MountArgs(foreground, allow_root, allow_other, args) ==
    [foreground |-> foreground, allow_root |-> allow_root,
     allow_other |-> allow_other] @@ args

MountOption(option, value) == [option |-> option, value |-> value]

(* env!("CARGO_PKG_NAME") *)
CargoPkgName == "tarfs"

(* mount_opts that leaves out read-only when the mount is shared *)
MountOptsSharedWritable(args) ==
    <<MountOption("FSName", CargoPkgName)>>
    \o (IF args.allow_other \/ args.allow_root THEN <<>>
        ELSE <<MountOption("RO", "")>>)
    \o <<MountOption("NoDev", "")>>
    \o (IF args.allow_other \/ args.allow_root THEN <<MountOption("AllowOther", "")>>
        ELSE IF args.allow_root THEN <<MountOption("AllowRoot", "")>>
        ELSE <<>>)

MountOpts(args) ==
    <<MountOption("FSName", CargoPkgName), MountOption("RO", ""),
      MountOption("NoDev", "")>>
    \o (IF args.allow_other \/ args.allow_root THEN <<MountOption("AllowOther", "")>>
        ELSE IF args.allow_root THEN <<MountOption("AllowRoot", "")>>
        ELSE <<>>)

(* main up to the mount: detection, build, then do_mount in this process
   (foreground) or in the child of fork; fork may fail.  reply records the
   call of mount2 with its options *)
MainDoMount(fork_ok) ==
    /\ phase = "start"
    /\ LET compression == Detect(archive_file)
           built == TreeNew(archive, ArchiveMtime, cli_args)
           call == Call("mount2", 0, 0, 0, 0, "")
       IN IF compression.panic
          THEN /\ phase' = "panicked"
               /\ UNCHANGED <<filesystem, reply>>
          ELSE IF ~built.ok
          THEN /\ phase' = "failed"
               /\ UNCHANGED <<filesystem, reply>>
          ELSE IF ~cli_args.foreground /\ ~fork_ok
          THEN /\ phase' = "failed"
               /\ UNCHANGED <<filesystem, reply>>
          ELSE /\ phase' = "mounted"
               /\ filesystem' = FilesystemNew(built.nodes, compression.value)
               /\ reply' = Reply(call, "mount", MountOpts(cli_args), FALSE)
    /\ UNCHANGED <<archive, scans, opened, cli_args, cache, racers, archive_file>>

MountArgsUniverse ==
    {MountArgs(f, r, o, args) : f \in BOOLEAN, r \in BOOLEAN, o \in BOOLEAN,
                                args \in {DefaultArgs, Args(TRUE, 5, None, 416)}}

InitMount ==
    /\ archive \in HeaderArchives
    /\ phase = "start"
    /\ filesystem = FilesystemNew(<<>>, "Unknown")
    /\ reply = NoReply
    /\ archive_file \in {PlainFile, <<>>}
    /\ scans = {}
    /\ opened = <<>>
    /\ cli_args \in MountArgsUniverse
    /\ cache = NoCache
    /\ racers = NoRacers

NextMount ==
    \/ \E fork_ok \in BOOLEAN : MainDoMount(fork_ok)
    \/ \E ino \in Inos : FsGetattr(ino)

(* The program from the command line to the mount, under every
   combination of flags *)
SpecMount == InitMount /\ [][NextMount]_vars

(* The options of the mount contain the option *)
HasOption(opts, option) == \E k \in 1..Len(opts) : opts[k].option = option

(* C27.  Read-only mount options: for every combination of command-line
   flags the option list passed to the FUSE mount contains read-only,
   no-device and the filesystem name. *)
C27_MountOptions ==
    reply.op = "mount2" =>
        /\ HasOption(reply.value, "RO")
        /\ HasOption(reply.value, "NoDev")
        /\ MountOption("FSName", CargoPkgName) \in
              {reply.value[k] : k \in 1..Len(reply.value)}

(* A mount in the background for root and every other user *)
C27_Witness ==
    /\ reply.op = "mount2"
    /\ ~cli_args.foreground
    /\ cli_args.allow_root
    /\ cli_args.allow_other
    /\ HasOption(reply.value, "AllowOther")

-----------------------------------------------------------------------------
(* The record a node of the tree was made from, 0 if none: the record of
   its id, for a hard link the hard-link record of its path *)
RecordOf(nodes, a, at) ==
    IF nodes[at].kind = "Link"
    THEN LET hits == {i \in DOMAIN a : LinkPlaced(nodes, a, i)
                                        /\ StrictWalk(nodes, a[i].path) = at}
         IN IF hits = {} THEN 0 ELSE Min(hits)
    ELSE EntryOfId(a, nodes[at].id)

(* C28.  Hard-link target kind: every HardLink node of the tree after the
   build references a File or a Symlink; a hard-link record whose target
   path resolves to a Directory (or to the root) creates no node. *)
C28_HardLinkTargetKind ==
    phase = "mounted" =>
        LET nodes == filesystem.tree
        IN /\ \A at \in DOMAIN nodes :
                 nodes[at].kind = "Link" =>
                     nodes[nodes[at].link].kind \in {"File", "Symlink"}
           /\ \A i \in DOMAIN archive :
                 (/\ archive[i].type = "Link"
                  /\ archive[i].path # <<>>
                  /\ StrictWalk(nodes, archive[i].link) # 0
                  /\ nodes[StrictWalk(nodes, archive[i].link)].kind = "Directory")
                     => ~LinkPlaced(nodes, archive, i)

(* C29.  Hard-link target order: every HardLink node of the tree is bound to
   a target whose record comes earlier in the archive than the hard-link
   record; a hard-link record whose target path only a later record
   introduces produces no node. *)
C29_HardLinkTargetOrder ==
    phase = "mounted" =>
        LET nodes == filesystem.tree
        IN /\ \A at \in DOMAIN nodes :
                 (nodes[at].kind = "Link" /\ RecordOf(nodes, archive, at) # 0) =>
                     /\ RecordOf(nodes, archive, nodes[at].link) # 0
                     /\ RecordOf(nodes, archive, nodes[at].link)
                            < RecordOf(nodes, archive, at)
           /\ \A i \in DOMAIN archive :
                 (/\ archive[i].type = "Link"
                  /\ archive[i].path # <<>>
                  /\ \E j \in (i + 1)..Len(archive) : archive[j].path = archive[i].link
                  /\ ~\E j \in 1..(i - 1) : archive[j].path = archive[i].link)
                     => ~LinkPlaced(nodes, archive, i)

(* C30.  Children order: the children of every Directory stand, as
   children() and readdir return them, in the order of their records in
   the archive, hard links included. *)
C30_ChildrenOrder ==
    phase = "mounted" =>
        LET nodes == filesystem.tree
        IN \A at \in DOMAIN nodes :
              nodes[at].kind = "Directory" =>
                  LET cs == nodes[at].children
                  IN \A m \in 1..Len(cs), n \in 1..Len(cs) :
                        m < n => RecordOf(nodes, archive, cs[m])
                                    < RecordOf(nodes, archive, cs[n])

-----------------------------------------------------------------------------
(* The record j has its node in the tree, at its path *)
NodePlaced(nodes, a, j) ==
    /\ IsNodeEntry(a[j])
    /\ StrictWalk(nodes, a[j].path) # 0
    /\ nodes[StrictWalk(nodes, a[j].path)].id = ExpectedId(a, j)

(* The directory the record names as its parent is in the tree *)
ParentPlaced(nodes, a, i) ==
    /\ StrictWalk(nodes, Parent(a[i].path)) # 0
    /\ nodes[StrictWalk(nodes, Parent(a[i].path))].kind = "Directory"

(* C29, as the code has it.  Hard links are bound after the last record is
   read: a hard-link record whose target path is the path of a record that
   has a node, earlier or later in the archive, and whose parent directory
   is in the tree, has a HardLink node bound to that node. *)
C29_HardLinkTargetAnyOrder ==
    phase = "mounted" =>
        LET nodes == filesystem.tree
        IN \A i \in DOMAIN archive, j \in DOMAIN archive :
              (/\ archive[i].type = "Link"
               /\ archive[i].path # <<>>
               /\ archive[j].path = archive[i].link
               /\ NodePlaced(nodes, archive, j)
               /\ ParentPlaced(nodes, archive, i)) =>
                  /\ LinkPlaced(nodes, archive, i)
                  /\ nodes[StrictWalk(nodes, archive[i].path)].link
                        = StrictWalk(nodes, archive[j].path)

(* A hard link bound to the file of a later record, which counts it *)
C29_Witness ==
    /\ phase = "mounted"
    /\ \E i \in DOMAIN archive, j \in DOMAIN archive :
          /\ i < j
          /\ archive[i].type = "Link"
          /\ archive[j].type = "Regular"
          /\ archive[j].path = archive[i].link
          /\ LinkPlaced(filesystem.tree, archive, i)
          /\ filesystem.tree[StrictWalk(filesystem.tree, archive[j].path)].link_count = 2

(* C30, as the code has it.  Children order: the children of every
   Directory that are not hard links stand in the order of their records,
   the hard links stand after all of them, in the order of their records
   among themselves. *)
C30_ChildrenInsertionOrder ==
    phase = "mounted" =>
        LET nodes == filesystem.tree
        IN \A at \in DOMAIN nodes :
              nodes[at].kind = "Directory" =>
                  LET cs == nodes[at].children
                  IN \A m \in 1..Len(cs), n \in 1..Len(cs) :
                        m < n =>
                            /\ nodes[cs[m]].kind = "Link" => nodes[cs[n]].kind = "Link"
                            /\ (nodes[cs[m]].kind = "Link") = (nodes[cs[n]].kind = "Link")
                                  => /\ RecordOf(nodes, archive, cs[m]) # 0
                                     /\ RecordOf(nodes, archive, cs[m])
                                           < RecordOf(nodes, archive, cs[n])

(* A directory lists a file and two hard links whose records stand before
   the record of the file *)
C30_Witness ==
    /\ phase = "mounted"
    /\ \E at \in DOMAIN filesystem.tree :
          LET nodes == filesystem.tree
              cs == nodes[at].children
          IN /\ nodes[at].kind = "Directory"
             /\ Len(cs) = 3
             /\ nodes[cs[1]].kind = "File"
             /\ nodes[cs[2]].kind = "Link"
             /\ nodes[cs[3]].kind = "Link"
             /\ RecordOf(nodes, archive, cs[3]) < RecordOf(nodes, archive, cs[1])

-----------------------------------------------------------------------------
(* C31.  archive_index: for every File node, archive_index is the
   zero-based ordinal of its record among all the records of a fresh
   iteration of the archive (skipped records, queued hard links and records
   of unknown type counted), so that skipping archive_index records and
   taking the next one yields the record the node was built from, and
   Node::read reads the body of that record. *)
C31_ArchiveIndex ==
    phase = "mounted" =>
        LET nodes == filesystem.tree
        IN \A at \in DOMAIN nodes :
              nodes[at].kind = "File" =>
                  LET index == nodes[at].archive_index
                  IN /\ index + 1 \in DOMAIN archive
                     /\ index + 1 = EntryOfId(archive, nodes[at].id)
                     /\ archive[index + 1].type = "Regular"
                     /\ BaseName(archive[index + 1]) = nodes[at].name
                     /\ archive[index + 1].size = nodes[at].size
                     /\ NodeRead(archive, nodes, at, 0, None)
                           = [status |-> "ok", buf |-> Body(archive, index)]

(* A file with a body whose record stands behind a record that made no
   node *)
C31_Witness ==
    /\ phase = "mounted"
    /\ \E at \in DOMAIN filesystem.tree :
          /\ filesystem.tree[at].kind = "File"
          /\ filesystem.tree[at].size > 0
          /\ filesystem.tree[at].archive_index > filesystem.tree[at].id - 2

-----------------------------------------------------------------------------
(* The record is malformed: no final name, a link without a target, or a
   metadata field that does not decode *)
Malformed(e) ==
    \/ e.path = <<>>
    \/ e.type \in {"Link", "Symlink"} /\ e.link = <<>>
    \/ e.mtime = Bad
    \/ e.mode = Bad
    \/ e.uid = Bad
    \/ e.gid = Bad

(* C32.  Malformed entries are not fatal: when the archive holds a record
   with a missing final name, a link without a target or undecodable
   metadata, the build still returns a tree, in which the malformed records
   have no node and every well-formed record that creates a node has its
   node. *)
C32_MalformedNotFatal ==
    (phase # "start" /\ \E i \in DOMAIN archive : Malformed(archive[i])) =>
        /\ phase = "mounted"
        /\ \A i \in DOMAIN archive :
              (Malformed(archive[i]) /\ archive[i].path # <<>>) =>
                  StrictWalk(filesystem.tree, archive[i].path) = 0
        /\ \A i \in DOMAIN archive :
              (~Malformed(archive[i]) /\ IsNodeEntry(archive[i])
                  /\ ~IsOrphan(archive, i)) =>
                  /\ StrictWalk(filesystem.tree, archive[i].path) # 0
                  /\ filesystem.tree[StrictWalk(filesystem.tree, archive[i].path)].kind
                        = ExpectedKind(archive[i])

-----------------------------------------------------------------------------
(* What a step does to the handle counter, as C33 has it: the counter never
   goes back, and a successful open returns an id that is not below the
   counter before the step and is below the counter after it.  Every id
   returned earlier is below the counter, so the ids of successful opens
   grow strictly in call order. *)
HandleAllocationStep ==
    /\ filesystem'.next_fh >= filesystem.next_fh
    /\ (reply'.op = "open" /\ reply'.kind = "opened") =>
          /\ reply'.value >= filesystem.next_fh
          /\ reply'.value < filesystem'.next_fh
          /\ reply'.value \notin DOMAIN opened

(* C33.  Handle allocation: the handles successful opens return grow
   strictly in call order, hence are pairwise distinct over the life of the
   mount, whatever releases and failed opens come in between. *)
C33_HandleAllocation == [][HandleAllocationStep]_vars

(* ArchiveFs hands out an id above the first when the ids before it were
   released or taken by failed opens *)
C33_Witness ==
    /\ phase = "mounted_archivefs"
    /\ reply.op = "open"
    /\ reply.kind = "opened"
    /\ reply.value = filesystem.next_fh - 1
    /\ DOMAIN filesystem.fhs = {reply.value}
    /\ reply.value >= 2

-----------------------------------------------------------------------------
(* C34.  Handle map exactness: in every state of a mount of ArchiveFs the
   keys of the handle map are the handles successful opens returned and
   release has not taken back, every key is below the handle counter, and
   every entry is the file of the cache for the path of the node that was
   opened: it holds the body of the record of that path, or the start of
   it that an earlier copy left in the cache. *)
C34_HandleMapExactness ==
    phase \in {"mounted_archivefs", "destroyed"} =>
        /\ DOMAIN filesystem.fhs = DOMAIN opened
        /\ \A fh \in DOMAIN filesystem.fhs :
              /\ fh < filesystem.next_fh
              /\ opened[fh] \in DOMAIN filesystem.inodes
              /\ filesystem.fhs[fh].path = filesystem.inodes[opened[fh]].path
              /\ EntryOfPath(archive, filesystem.fhs[fh].path) # 0
              /\ LET body == Body(archive,
                                  EntryOfPath(archive, filesystem.fhs[fh].path) - 1)
                 IN \E n \in 0..Len(body) :
                       filesystem.fhs[fh].data = SubSeq(body, 1, n)

(* One handle is left of those opened: the first was released *)
C34_Witness ==
    /\ phase = "mounted_archivefs"
    /\ reply.op = "release"
    /\ DOMAIN filesystem.fhs = {2}
    /\ filesystem.next_fh = 3

-----------------------------------------------------------------------------
(* What a call of EntryCache::open does with a copy that fails and with a
   file that is in the cache, as C35 has it *)
TruncatedHitStep ==
    reply'.op = "cache_open" =>
        LET path == reply'.call.path
            fault == reply'.call.fault
            i == EntryOfPath(archive, path)
            body == Body(archive, i - 1)
        IN /\ (fault.kind = "copy" /\ path \notin DOMAIN cache.files /\ i # 0) =>
                 /\ reply'.kind = "err"
                 /\ path \in DOMAIN cache'.files
                 /\ cache'.files[path]
                       = SubSeq(body, 1, IF fault.written < Len(body)
                                         THEN fault.written ELSE Len(body))
           /\ path \in DOMAIN cache.files =>
                 /\ reply'.kind = "file"
                 /\ reply'.value = cache.files[path]
                 /\ ~reply'.scanned
                 /\ reply'.call.read = 0
                 /\ cache' = cache

(* C35.  Truncated cache file is taken as a hit: when the copy of the body
   fails after the cache file was created, the partial file stays under its
   final name, and the next open of the entry is served from it as a hit,
   the archive not being scanned again. *)
C35_TruncatedHit == [][TruncatedHitStep]_vars

(* A hit that returns fewer bytes than the record of the path has *)
C35_Witness ==
    /\ reply.op = "cache_open"
    /\ reply.kind = "file"
    /\ ~reply.scanned
    /\ EntryOfPath(archive, reply.call.path) # 0
    /\ Len(reply.value) < archive[EntryOfPath(archive, reply.call.path)].size

-----------------------------------------------------------------------------
(* Two mounts of one archive path.  Both caches have the base directory
   /var/tmp/tarfs/<hash of the archive path>, so the second mount, another
   process, works on the same scratch directory: its opens and its destroy
   are steps of the EntryCache on the directory this mount uses. *)

OtherMountOpen(path, fault) ==
    /\ phase = "mounted_archivefs"
    /\ cache' = EntryCacheOpen(cache, archive, path, fault).cache
    /\ reply' = Reply([fault |-> fault, path |-> path]
                         @@ Call("other_open", 0, 0, 0, 0, ""),
                      IF EntryCacheOpen(cache, archive, path, fault).ok
                      THEN "opened" ELSE "error", 0, FALSE)
    /\ UNCHANGED <<archive, phase, filesystem, scans, opened, cli_args, racers,
                   archive_file>>

OtherMountDestroy(removal) ==
    /\ phase = "mounted_archivefs"
    /\ cache' = EntryCacheClean(cache, removal).cache
    /\ reply' = Reply([removal |-> removal] @@ Call("other_destroy", 0, 0, 0, 0, ""),
                      "returned", EntryCacheClean(cache, removal).ok, FALSE)
    /\ UNCHANGED <<archive, phase, filesystem, scans, opened, cli_args, racers,
                   archive_file>>

(* The paths the other mount opens: those of the records of the archive *)
OtherPaths == {archive[i].path : i \in DOMAIN archive}

NextSharedCache ==
    \/ MainArchiveFs
    \/ \E ino \in Inos, fault \in HandleFaults : ArchiveFsOpen(ino, fault)
    \/ \E fh \in Fhs : ArchiveFsRelease(fh)
    \/ \E removal \in Removals(cache) : ArchiveFsDestroy(removal)
    \/ \E path \in OtherPaths, fault \in HandleFaults : OtherMountOpen(path, fault)
    \/ \E removal \in Removals(cache) : OtherMountDestroy(removal)

SpecSharedCache == InitArchiveFsServe /\ [][NextSharedCache]_vars

(* C36.  Cache file lifetime with a shared scratch directory: while this
   mount is not destroyed, every cache file one of its opens created is
   present, whatever the other mount of the same archive path does, its
   destroy included; and an open of this mount that meets no failure still
   succeeds. *)
C36_SharedCacheLifetime ==
    phase = "mounted_archivefs" =>
        /\ \A ino \in scans :
              filesystem.inodes[ino].path \in DOMAIN cache.files
        /\ (/\ reply.op = "open"
            /\ reply.call.fault.kind = "none"
            /\ reply.call.ino \in DOMAIN filesystem.inodes
            /\ filesystem.inodes[reply.call.ino].kind # "Directory") =>
                 reply.kind = "opened"

-----------------------------------------------------------------------------
(* getattr of ArchiveFs on the number replies attributes with that number
   and the kind given *)
Resolvable(ino, kind) ==
    LET got == ArchiveFsAnswer(filesystem.inodes, Call("getattr", ino, 0, 0, 0, ""))
    IN /\ got[1] = "attr"
       /\ got[2].ino = ino
       /\ got[2].kind = kind

(* C37.  Inode closure: every inode number ArchiveFs hands to the kernel in
   a reply of lookup, readdir or readdirplus is resolvable: getattr on it
   replies attributes (not ENOENT) with that ino and with the kind the
   entry reported. *)
C37_InodeClosure ==
    phase = "mounted_archivefs" =>
        /\ (reply.op = "lookup" /\ reply.kind = "entry") =>
              Resolvable(reply.value.ino, reply.value.kind)
        /\ (reply.op = "readdir" /\ reply.kind = "dir") =>
              \A k \in 1..Len(reply.value) :
                  Resolvable(reply.value[k].ino, reply.value[k].kind)
        /\ (reply.op = "readdirplus" /\ reply.kind = "dirplus") =>
              \A k \in 1..Len(reply.value) :
                  Resolvable(reply.value[k].ino, reply.value[k].attr.kind)

=============================================================================
